---- MODULE Spec2Model ----
(***************************************************************************)
(* A model of the query-plan executor of the router                        *)
(* (apollo-router/src/query_planner/execution.rs): the recursive           *)
(* evaluation of plan nodes, the deferred nodes spawned by a Defer node,   *)
(* the broadcast channels between them and the response channel read by    *)
(* the caller.                                                             *)
(***************************************************************************)
EXTENDS Integers, Sequences, FiniteSets, TLC

(***************************************************************************)
(* Option<T> is a sequence of length 0 (None) or 1 (Some).                 *)
(***************************************************************************)
None == <<>>
Some(x) == <<x>>

(***************************************************************************)
(* JSON values.  Every value has the same three fields so that any two     *)
(* values can be compared: t is the variant, n the number of a "num", kv   *)
(* the entries of an "obj" (key k, value v, in insertion order) or of an   *)
(* "arr" (k is "", in index order).  Value::default() is Null.             *)
(***************************************************************************)
Null == [t |-> "null", n |-> 0, kv |-> <<>>]
Num(i) == [t |-> "num", n |-> i, kv |-> <<>>]
KV(k, v) == [k |-> k, v |-> v]
Obj(kv) == [t |-> "obj", n |-> 0, kv |-> kv]
Arr(items) == [t |-> "arr", n |-> 0, kv |-> [i \in 1..Len(items) |-> KV("", items[i])]]

Keys(kv) == {kv[i].k : i \in 1..Len(kv)}
IndexOfKey(kv, k) == CHOOSE i \in 1..Len(kv) : kv[i].k = k
SelectKV(kv, keep) == SelectSeq(kv, LAMBDA e : e.k \in keep)

RECURSIVE DeepMerge(_, _)
\* a.deep_merge(b): objects merge key by key, the keys of a keeping their
\* place and the keys only b has being appended in b's order; arrays merge
\* index by index, the longer tail being kept; the empty value changes
\* nothing; in every other case the right-hand value wins.
DeepMerge(a, b) ==
    IF b.t = "null" THEN a
    ELSE IF a.t = "obj" /\ b.t = "obj" THEN
        Obj([i \in 1..Len(a.kv) |->
                IF a.kv[i].k \in Keys(b.kv)
                THEN KV(a.kv[i].k,
                        DeepMerge(a.kv[i].v, b.kv[IndexOfKey(b.kv, a.kv[i].k)].v))
                ELSE a.kv[i]]
            \o SelectKV(b.kv, Keys(b.kv) \ Keys(a.kv)))
    ELSE IF a.t = "arr" /\ b.t = "arr" THEN
        [t |-> "arr", n |-> 0,
         kv |-> [i \in 1..(IF Len(a.kv) > Len(b.kv) THEN Len(a.kv) ELSE Len(b.kv)) |->
                    IF i <= Len(a.kv) /\ i <= Len(b.kv)
                    THEN KV("", DeepMerge(a.kv[i].v, b.kv[i].v))
                    ELSE IF i <= Len(a.kv) THEN a.kv[i] ELSE b.kv[i]]]
    ELSE b

RECURSIVE Leaves(_)
\* The leaves of a value as a set of <<path, scalar>> pairs: what the value
\* holds, whatever the order of its keys.  The empty value has no leaf.
Leaves(v) ==
    IF v.t = "null" THEN {}
    ELSE IF v.t = "num" THEN {<<<<>>, v.n>>}
    ELSE UNION {{<<<<IF v.t = "arr" THEN "#" ELSE v.kv[i].k>> \o l[1], l[2]>> :
                    l \in Leaves(v.kv[i].v)} : i \in 1..Len(v.kv)}

RECURSIVE FromPath(_, _)
\* Value::from_path: the value nested under the keys of a path.
FromPath(path, v) ==
    IF path = <<>> \/ v.t = "null" THEN v
    ELSE Obj(<<KV(Head(path), FromPath(Tail(path), v))>>)

(***************************************************************************)
(* Errors and responses.                                                   *)
(***************************************************************************)
Error(message, path) == [message |-> message, path |-> path]

\* Response::builder(): path, label and subselection are options; so is
\* has_next, which no builder call of the execution sets.
Response(data, errors, path, subselection, label) ==
    [data |-> data, errors |-> errors, path |-> path,
     subselection |-> subselection, label |-> label, has_next |-> None]

(***************************************************************************)
(* Plan nodes (PlanNode, DeferredNode).  Every node has the same fields;   *)
(* a constructor fills those of its variant.  Optional nodes are options.  *)
(***************************************************************************)
NoNode ==
    [kind |-> "", nodes |-> <<>>, path |-> <<>>, id |-> None, data |-> Null,
     gqlErrors |-> <<>>, canFail |-> FALSE, primarySubselection |-> None,
     deferred |-> <<>>, condition |-> "", ifClause |-> None, elseClause |-> None]

\* Fetch: id is the fetch id deferred nodes may depend on; data and gqlErrors
\* are what the subgraph answers; canFail says the transport may fail.
FetchNode(id, data, gqlErrors, canFail) ==
    [NoNode EXCEPT !.kind = "Fetch", !.id = id, !.data = data,
                   !.gqlErrors = gqlErrors, !.canFail = canFail]
SequenceNode(nodes) == [NoNode EXCEPT !.kind = "Sequence", !.nodes = nodes]
ParallelNode(nodes) == [NoNode EXCEPT !.kind = "Parallel", !.nodes = nodes]
FlattenNode(path, node) ==
    [NoNode EXCEPT !.kind = "Flatten", !.path = path, !.nodes = <<node>>]
\* Defer: nodes is the option primary.node.
DeferNode(primarySubselection, node, deferred) ==
    [NoNode EXCEPT !.kind = "Defer", !.primarySubselection = primarySubselection,
                   !.nodes = node, !.deferred = deferred]
ConditionNode(condition, ifClause, elseClause) ==
    [NoNode EXCEPT !.kind = "Condition", !.condition = condition,
                   !.ifClause = ifClause, !.elseClause = elseClause]
DeferredNode(depends, path, subselection, label, node) ==
    [depends |-> depends, path |-> path, subselection |-> subselection,
     label |-> label, node |-> node]

\* The children of a node, by index: the nodes of a Sequence or a Parallel,
\* the node of a Flatten, the primary node (1) and the deferred nodes' inner
\* nodes (i + 1) of a Defer, the if (1) and else (2) clauses of a Condition.
HasChild(n, i) ==
    CASE n.kind \in {"Sequence", "Parallel", "Flatten"} -> i \in 1..Len(n.nodes)
      [] n.kind = "Defer" ->
            \/ i = 1 /\ Len(n.nodes) > 0
            \/ i \in 2..(Len(n.deferred) + 1) /\ Len(n.deferred[i - 1].node) > 0
      [] n.kind = "Condition" ->
            \/ i = 1 /\ Len(n.ifClause) > 0
            \/ i = 2 /\ Len(n.elseClause) > 0
      [] OTHER -> FALSE

ChildNode(n, i) ==
    CASE n.kind = "Defer" -> IF i = 1 THEN n.nodes[1] ELSE n.deferred[i - 1].node[1]
      [] n.kind = "Condition" -> IF i = 1 THEN n.ifClause[1] ELSE n.elseClause[1]
      [] OTHER -> n.nodes[i]

RECURSIVE NodeAt(_, _)
\* The node at a position: the indices of the children from the root down.
NodeAt(n, pos) ==
    IF pos = <<>> THEN n ELSE NodeAt(ChildNode(n, Head(pos)), Tail(pos))

MaxArity(n) ==
    CASE n.kind = "Defer" -> Len(n.deferred) + 1
      [] n.kind = "Condition" -> 2
      [] OTHER -> Len(n.nodes)

RECURSIVE Positions(_)
\* Every position of a plan.
Positions(n) ==
    {<<>>} \cup UNION {{<<i>> \o p : p \in Positions(ChildNode(n, i))} :
                          i \in {j \in 1..MaxArity(n) : HasChild(n, j)}}

(***************************************************************************)
(* The plans executed: the scenarios of the executor, and families of      *)
(* plans whose size the bounds set.                                        *)
(***************************************************************************)
MaxChildren == 3
MaxDeferred == 3

KeyNames == <<"a", "b", "c", "d">>
One(k, i) == Obj(<<KV(k, Num(i))>>)

\* S1: a fetch, then a fetch flattened under "me" whose transport may fail
\* and whose subgraph reports an error at "reviews".
PlanS1 ==
    SequenceNode(<<
        FetchNode(None, Obj(<<KV("me", One("id", 1))>>), <<>>, FALSE),
        FlattenNode(<<"me">>,
            FetchNode(None, Obj(<<KV("reviews", Arr(<<One("body", 7)>>))>>),
                      <<Error("review", <<"reviews">>)>>, TRUE))>>)

\* A Sequence of n fetches that all write "x" and each a key of its own; the
\* first one's transport may fail, the second reports an error.
PlanSequence(n) ==
    SequenceNode([i \in 1..n |->
        FetchNode(None, Obj(<<KV("x", Num(i)), KV(KeyNames[i], Num(i))>>),
                  IF i = 2 THEN <<Error("e2", <<"x">>)>> ELSE <<>>, i = 1)])

\* A Parallel of n fetches that write disjoint keys.
PlanParallel(n) ==
    ParallelNode([i \in 1..n |->
        FetchNode(None, Obj(<<KV(KeyNames[i], One("v", i))>>),
                  IF i = 1 THEN <<Error("e1", <<"a">>)>> ELSE <<>>, i = 2)])

\* A Parallel whose children write the same key.
PlanParallelOverlap ==
    ParallelNode(<<FetchNode(None, One("a", 1), <<>>, FALSE),
                   FetchNode(None, One("a", 2), <<>>, FALSE)>>)

\* The j-th deferred node of PlanDefer, at the path <<"user", KeyNames[j]>>:
\* the first waits for the primary alone, the second depends on the
\* primary's fetch "f1", the third depends on "f1" and on a fetch "f9" no
\* node of the plan performs and has no inner node, and so on.
DeferredOf(j) ==
    CASE j % 3 = 1 ->
            DeferredNode(<<>>, <<"user", KeyNames[j]>>, None, Some("l1"),
                Some(FetchNode(None, Obj(<<KV("user", One("name", 5))>>), <<>>, FALSE)))
      [] j % 3 = 2 ->
            DeferredNode(<<"f1">>, <<"user", KeyNames[j]>>, Some("s2"), None,
                Some(FetchNode(None, Obj(<<KV("a", Num(6)), KV("b", Num(6))>>),
                               <<Error("eb", <<"b">>)>>, FALSE)))
      [] OTHER ->
            DeferredNode(<<"f1", "f9">>, <<"user", KeyNames[j]>>, Some("s3"),
                         Some("l3"), None)

\* A Defer with n deferred nodes whose primary fetch "f1" may fail.
PlanDefer(n) ==
    DeferNode(Some("p"),
        Some(FetchNode(Some("f1"), One("a", 1), <<Error("ea", <<"a">>)>>, TRUE)),
        [j \in 1..n |-> DeferredOf(j)])

\* A Defer with two deferred nodes, followed in a Sequence by one more fetch.
PlanDeferThen ==
    SequenceNode(<<PlanDefer(2), FetchNode(None, One("z", 9), <<>>, FALSE)>>)

\* S4: a Condition on the variable "if" between a Defer without primary
\* node, with one deferred node, and a plain fetch.
PlanCondition(hasIf, hasElse) ==
    ConditionNode("if",
        IF hasIf
        THEN Some(DeferNode(None, None,
                <<DeferredNode(<<>>, <<"d">>, None, None, None)>>))
        ELSE None,
        IF hasElse THEN Some(FetchNode(None, One("b", 2), <<>>, TRUE)) ELSE None)

\* A Defer in the primary branch of a Defer: the inner primary performs
\* "f1", on which a deferred node of the outer Defer depends; and a Defer in
\* the inner plan of a deferred node.
PlanNested ==
    DeferNode(Some("outer"),
        Some(DeferNode(Some("inner"),
                Some(FetchNode(Some("f1"), One("a", 1), <<>>, FALSE)), <<>>)),
        <<DeferredNode(<<"f1">>, <<"n">>, None, Some("ln"),
            Some(DeferNode(None, None,
                <<DeferredNode(<<>>, <<"n", "m">>, None, Some("lm"), None)>>)))>>)

\* A Defer whose one deferred node, which declares a subselection or none,
\* has for inner node a Defer that returns the subselection "in".
PlanDeferSub(declared) ==
    DeferNode(None, None,
        <<DeferredNode(<<>>, <<"d">>, IF declared THEN Some("sd") ELSE None,
            Some("ld"), Some(DeferNode(Some("in"), None, <<>>)))>>)

\* A Defer flattened under "me": its primary declares a subselection, and
\* its deferred node has an inner fetch.
PlanFlattenDefer ==
    FlattenNode(<<"me">>,
        DeferNode(Some("pf"),
            Some(FetchNode(None, One("id", 1), <<Error("ef", <<"id">>)>>, FALSE)),
            <<DeferredNode(<<>>, <<"me", "x">>, None, None,
                Some(FetchNode(None, One("x", 3), <<>>, FALSE)))>>))

\* A Defer whose deferred node depends on a fetch "f9" that no node of the
\* plan performs, and has an inner fetch.
PlanDeferUnmet ==
    DeferNode(None,
        Some(FetchNode(None, One("a", 1), <<>>, FALSE)),
        <<DeferredNode(<<"f9">>, <<"u">>, None, Some("lu"),
            Some(FetchNode(None, One("u", 7), <<>>, FALSE)))>>)

PlanIds ==
    {<<"s1", 0>>, <<"flattendefer", 0>>, <<"unmet", 0>>, <<"overlap", 0>>, <<"nested", 0>>, <<"deferthen", 0>>}
    \cup {<<"sequence", n>> : n \in 0..MaxChildren}
    \cup {<<"parallel", n>> : n \in 0..MaxChildren}
    \cup {<<"defer", n>> : n \in 0..MaxDeferred}
    \cup {<<"condition", c>> : c \in 0..3}
    \cup {<<"defersub", c>> : c \in 0..1}

PlanAt(id) ==
    CASE id[1] = "s1" -> PlanS1
      [] id[1] = "overlap" -> PlanParallelOverlap
      [] id[1] = "nested" -> PlanNested
      [] id[1] = "deferthen" -> PlanDeferThen
      [] id[1] = "sequence" -> PlanSequence(id[2])
      [] id[1] = "parallel" -> PlanParallel(id[2])
      [] id[1] = "defer" -> PlanDefer(id[2])
      [] id[1] = "defersub" -> PlanDeferSub(id[2] = 1)
      [] id[1] = "flattendefer" -> PlanFlattenDefer
      [] id[1] = "unmet" -> PlanDeferUnmet
      [] OTHER -> PlanCondition(id[2] \in {1, 3}, id[2] \in {2, 3})

\* The values the request may give the condition variable, as JSON texts:
\* none, the booleans, null, a number and a string.
ConditionValues == {"absent", "true", "false", "null", "1", "\"true\""}

(***************************************************************************)
(* The events of the application, and what a router is built with.         *)
(***************************************************************************)
UpdateConfiguration(c) == [type |-> "UpdateConfiguration", v |-> c]
NoMoreConfiguration == [type |-> "NoMoreConfiguration", v |-> 0]
UpdateSchema(s) == [type |-> "UpdateSchema", v |-> s]
NoMoreSchema == [type |-> "NoMoreSchema", v |-> 0]
Shutdown == [type |-> "Shutdown", v |-> 0]

\* The environment gives the user's streams an item, or changes a file, at
\* most MaxFeeds times in all.
MaxFeeds == 2

\* The contents of a file: no file, a file that does not parse, or the
\* v-th valid configuration (or schema).
Missing == [exists |-> FALSE, valid |-> FALSE, v |-> 0]
Garbage == [exists |-> TRUE, valid |-> FALSE, v |-> 0]
Valid(v) == [exists |-> TRUE, valid |-> TRUE, v |-> v]
FileContents == {Missing, Garbage, Valid(1)}

ConfigurationInstance(c) == [kind |-> "Instance", watch |-> FALSE, v |-> c]
ConfigurationStream == [kind |-> "Stream", watch |-> FALSE, v |-> 0]
ConfigurationFile(watch) == [kind |-> "File", watch |-> watch, v |-> 0]
ConfigurationKind ==
    {ConfigurationInstance(1), ConfigurationStream}
    \cup {ConfigurationFile(w) : w \in BOOLEAN}

\* SchemaKind::Registry is todo!() and is left out.
SchemaInstance(s) == [kind |-> "Instance", watch |-> FALSE, v |-> s]
SchemaStream == [kind |-> "Stream", watch |-> FALSE, v |-> 0]
SchemaFile(watch) == [kind |-> "File", watch |-> watch, v |-> 0]
SchemaKind ==
    {SchemaInstance(1), SchemaStream} \cup {SchemaFile(w) : w \in BOOLEAN}

ShutdownKind == {"None", "Custom", "CtrlC"}

ApolloRouter(configuration, schema, shutdown) ==
    [configuration |-> configuration, schema |-> schema, shutdown |-> shutdown]

\* The routers the builder can build.
Routers ==
    {ApolloRouter(c, s, d) : c \in ConfigurationKind, s \in SchemaKind,
                             d \in ShutdownKind}

\* The lifecycle state machine: its state, the configuration and schema it
\* has stored, the sources that have ended, the factory the HTTP server
\* serves with and the states it has published.
StateMachine(state) ==
    [state |-> state, configuration |-> None, schema |-> None, ended |-> {},
     factory |-> None, published |-> <<>>]
NoMachine == StateMachine("none")

\* No plan is executed in a run that follows a router's lifecycle.
NoPlan == <<"none", 0>>

\* FederatedServerHandle { state_receiver: Some(state_receiver), .. }: no
\* call made yet.  ready is "idle", "waiting" while a call of ready reads
\* the states, or "returned"; seen counts the states it has read and
\* address is what it returned.
FederatedServerHandle ==
    [state_receiver |-> "Some", calls |-> <<>>, ready |-> "idle", seen |-> 0,
     address |-> None]

(***************************************************************************)
(* The state of one execution of a plan.                                   *)
(*   plan, variables  the plan executed and the request's value of the     *)
(*                    condition variable                                   *)
(*   pc, primary      where QueryPlan::execute is, and the Response it     *)
(*                    returned                                             *)
(*   fr               the calls of execute_recursively, by node position   *)
(*   dt               the futures of DeferredNode::execute, by the         *)
(*                    position of the deferred node's inner node           *)
(*   primaryCh        the primary broadcast channel of each Defer          *)
(*   fetchCh          the deferred_fetches of each Defer: the broadcast    *)
(*                    channel of each <<Defer position, fetch id>>         *)
(*   queue            the Responses sent on the response sender and not    *)
(*                    yet received                                         *)
(*   stream, rx       the Responses the caller's stream has yielded, and   *)
(*                    the state of its receiver                            *)
(*   lost             the deferred nodes whose send failed                 *)
(***************************************************************************)
VARIABLES plan, variables, pc, primary, fr, dt, primaryCh, fetchCh, queue,
          stream, rx, lost

executionVars == <<plan, variables, pc, primary, fr, dt, primaryCh, fetchCh,
                   queue, stream, rx, lost>>

(***************************************************************************)
(* The state of one run of an ApolloRouter.                                *)
(*   router           the configuration, schema and shutdown kinds the     *)
(*                    router was built with, if one was built              *)
(*   files            the contents of the configuration and schema files   *)
(*   snapshot         the files as into_stream found them                  *)
(*   sources          the configuration and schema event streams           *)
(*   signals          the shutdown future and the handle's shutdown sender *)
(*   events, merged   the events the unified stream has yielded, and       *)
(*                    whether it is open                                   *)
(*   feeds            the items and file changes the environment has made  *)
(*   machine          the lifecycle state machine                          *)
(*   requests         the requests the HTTP server has accepted            *)
(*   handle           the FederatedServerHandle serve returned: its        *)
(*                    state_receiver field, the calls made of ready and    *)
(*                    state_receiver, and the call of ready in progress    *)
(***************************************************************************)
VARIABLES router, files, snapshot, sources, signals, events, merged, feeds,
          machine, requests, handle

lifecycleVars == <<router, files, snapshot, sources, signals, events, merged,
                  feeds, machine, requests, handle>>

(***************************************************************************)
(* The plugin registry of the process.                                     *)
(*   registry         PLUGIN_REGISTRY: the factory registered under each   *)
(*                    name                                                 *)
(*   registrations    the calls of register_plugin made, in order          *)
(*   snapshots        the maps the calls of plugins() returned, each with  *)
(*                    the number of registrations made before it           *)
(***************************************************************************)
VARIABLES registry, registrations, snapshots

registryVars == <<registry, registrations, snapshots>>

(***************************************************************************)
(* The aggregation of stats reports.                                       *)
(*   reports          the SingleStatsReports given to Report::new          *)
(*   aggregated       the Report built so far                              *)
(*   added            the number of reports added to it                    *)
(***************************************************************************)
VARIABLES reports, aggregated, added

studioVars == <<reports, aggregated, added>>

(***************************************************************************)
(* The task serve spawns, the state channel and the owner of the handle.   *)
(*   task             the state machine task: the state it is in, whether  *)
(*                    it has seen Shutdown, and what the join of the task  *)
(*                    gives once it has ended                              *)
(*   statech          the state channel: the states queued and the state   *)
(*                    of its receiver                                      *)
(*   owner            the handle as its owner uses it: its state_receiver  *)
(*                    field, whether the receiver was taken, the call      *)
(*                    made of it, its shutdown sender, and the result the  *)
(*                    call returned                                        *)
(***************************************************************************)
VARIABLES task, statech, owner

serveVars == <<task, statech, owner>>

(***************************************************************************)
(* The sum of query latency stats.                                         *)
(*   latencies        the SingleQueryLatencyStats added, in order          *)
(*   query_latency_stats  the QueryLatencyStats they were added to         *)
(***************************************************************************)
VARIABLES latencies, query_latency_stats

latencyVars == <<latencies, query_latency_stats>>

(***************************************************************************)
(* The merge of two ErrorsForward.                                         *)
(*   forwards         self before the merge, to_merge, and self after it   *)
(***************************************************************************)
VARIABLES forwards

forwardVars == <<forwards>>

besidesExecution ==
    <<lifecycleVars, registryVars, studioVars, serveVars, latencyVars, forwardVars>>
besidesLifecycle ==
    <<executionVars, registryVars, studioVars, serveVars, latencyVars, forwardVars>>
besidesRegistry ==
    <<executionVars, lifecycleVars, studioVars, serveVars, latencyVars, forwardVars>>
besidesStudio ==
    <<executionVars, lifecycleVars, registryVars, serveVars, latencyVars, forwardVars>>
besidesServe ==
    <<executionVars, lifecycleVars, registryVars, studioVars, latencyVars, forwardVars>>
besidesLatency ==
    <<executionVars, lifecycleVars, registryVars, studioVars, serveVars, forwardVars>>
besidesForward ==
    <<executionVars, lifecycleVars, registryVars, studioVars, serveVars, latencyVars>>

vars == <<plan, variables, pc, primary, fr, dt, primaryCh, fetchCh, queue,
          stream, rx, lost, router, files, snapshot, sources, signals, events,
          merged, feeds, machine, requests, handle, registry, registrations,
          snapshots, reports, aggregated, added, task, statech, owner,
          latencies, query_latency_stats, forwards>>

\* Nothing is served, summed or merged.
NoServe == task = <<>> /\ statech = <<>> /\ owner = <<>>
NoLatency == latencies = <<>> /\ query_latency_stats = <<>>
NoForward == forwards = <<>>

Root == <<>>
Node(pos) == NodeAt(PlanAt(plan), pos)
Parent(pos) == SubSeq(pos, 1, Len(pos) - 1)
Last(pos) == pos[Len(pos)]

(***************************************************************************)
(* tokio::sync::broadcast: a channel keeps the values sent; a receiver is  *)
(* a cursor that sees the values sent after it subscribed.  A value sent   *)
(* while no receiver exists is not kept.  A receive yields the next value, *)
(* or fails when the receiver lags by more than the capacity or when the   *)
(* channel is closed and holds no further value.                           *)
(***************************************************************************)
BroadcastCapacity == 1
BcNew == [msgs |-> <<>>, open |-> TRUE]
BcSend(ch, m, receivers) ==
    IF receivers = 0 THEN ch ELSE [ch EXCEPT !.msgs = Append(@, m)]
BcClose(ch) == [ch EXCEPT !.open = FALSE]
BcSubscribe(ch) == Len(ch.msgs)
BcReady(ch, cursor) == cursor < Len(ch.msgs) \/ ~ch.open
BcRecv(ch, cursor) ==
    IF cursor < Len(ch.msgs) /\ Len(ch.msgs) - cursor <= BroadcastCapacity
    THEN Some(ch.msgs[cursor + 1])
    ELSE None

UnwrapOr(opt, default) == IF opt = None THEN default ELSE opt[1]

(***************************************************************************)
(* A call of execute_recursively: its arguments (parent_value,             *)
(* current_dir, and df, the Defer whose deferred_fetches the parameters    *)
(* hold, if any) and its locals (value, errors, subselection).  st is      *)
(* "created" until the future is first polled, then "running", then        *)
(* "done" once it has returned (value, subselection, errors).              *)
(***************************************************************************)
NewFrame(parent_value, current_dir, df) ==
    [st |-> "created", parent |-> parent_value, dir |-> current_dir, df |-> df,
     value |-> Null, errors |-> <<>>, subselection |-> None,
     next |-> 0, merged |-> {}, failed |-> FALSE]

Returned(f, value, subselection, errors) ==
    [f EXCEPT !.st = "done", !.value = value, !.subselection = subselection,
              !.errors = errors]

\* A plan is about to be executed; no router is involved.
Init ==
    /\ plan \in PlanIds
    /\ variables \in (IF plan[1] = "condition" THEN ConditionValues ELSE {"absent"})
    /\ pc = "init"
    /\ router = None
    /\ files = <<>>
    /\ snapshot = <<>>
    /\ sources = <<>>
    /\ signals = [future |-> "pending", handle |-> "held"]
    /\ events = <<>>
    /\ merged = "none"
    /\ feeds = 0
    /\ machine = NoMachine
    /\ requests = <<>>
    /\ handle = FederatedServerHandle
    /\ registry = <<>>
    /\ registrations = <<>>
    /\ snapshots = <<>>
    /\ reports = <<>>
    /\ aggregated = <<>>
    /\ added = 0
    /\ NoServe
    /\ NoLatency
    /\ NoForward
    /\ primary = None
    /\ fr = <<>>
    /\ dt = <<>>
    /\ primaryCh = <<>>
    /\ fetchCh = <<>>
    /\ queue = <<>>
    /\ stream = <<>>
    /\ rx = "open"
    /\ lost = {}

(***************************************************************************)
(* QueryPlan::execute.                                                     *)
(***************************************************************************)
\* The root is executed at the empty path, with the default value as parent
\* and an empty deferred_fetches.
ExecuteCall ==
    /\ pc = "init"
    /\ pc' = "running"
    /\ fr' = (Root :> NewFrame(Null, <<>>, None))
    /\ UNCHANGED <<plan, variables, primary, dt, primaryCh, fetchCh, queue,
                   stream, rx, lost>>

\* A Response built with the root path as its path.
PrimaryResponseWithPath(f) ==
    Response(f.value, f.errors, Some(<<>>), f.subselection, None)

\* The Response built from the root's result: no path, no label.
PrimaryResponse(f) == Response(f.value, f.errors, None, f.subselection, None)

ExecuteReturn ==
    /\ pc = "running"
    /\ fr[Root].st = "done"
    /\ pc' = "returned"
    /\ primary' = Some(PrimaryResponse(fr[Root]))
    /\ UNCHANGED <<plan, variables, fr, dt, primaryCh, fetchCh, queue, stream,
                   rx, lost>>

(***************************************************************************)
(* PlanNode::execute_recursively, Sequence.                                *)
(***************************************************************************)
\* The Sequence's own parent_value, whatever the children returned.
SequenceChildParentStale(f) == f.parent
SequenceChildParent(f) == f.value
SequenceMerge(value, v) == DeepMerge(value, v)
SequenceErrors(errors, err) == errors \o err
\* A subselection kept when the child returns none.
SequenceSubselectionNonEmpty(subselection, subselect) ==
    IF subselect # None THEN subselect ELSE subselection
\* subselection = subselect.
SequenceSubselection(subselection, subselect) == subselect
\* A loop that stops at the first child that returns errors.
SequenceStopsOnError(err) == err = <<>>
\* Whether the loop goes on to the next node after a child returned err.
SequenceContinues(err) == TRUE

SequenceEnter(pos) ==
    /\ fr[pos].st = "created"
    /\ Node(pos).kind = "Sequence"
    /\ LET f == [fr[pos] EXCEPT !.value = fr[pos].parent, !.errors = <<>>, !.next = 1]
       IN  IF Len(Node(pos).nodes) = 0
           THEN fr' = [fr EXCEPT ![pos] = Returned(f, f.value, None, f.errors)]
           ELSE fr' = [fr EXCEPT ![pos] = [f EXCEPT !.st = "running"]]
                      @@ (Append(pos, 1) :> NewFrame(SequenceChildParent(f), f.dir, f.df))
    /\ UNCHANGED <<plan, variables, pc, primary, dt, primaryCh, fetchCh, queue,
                   stream, rx, lost>>

SequenceJoin(pos) ==
    /\ fr[pos].st = "running"
    /\ Node(pos).kind = "Sequence"
    /\ fr[Append(pos, fr[pos].next)].st = "done"
    /\ LET c == fr[Append(pos, fr[pos].next)]
           f == [fr[pos] EXCEPT !.value = SequenceMerge(@, c.value),
                                !.errors = SequenceErrors(@, c.errors),
                                !.subselection =
                                    SequenceSubselection(@, c.subselection),
                                !.next = @ + 1]
       IN  IF f.next > Len(Node(pos).nodes) \/ ~SequenceContinues(c.errors)
           THEN fr' = [fr EXCEPT ![pos] =
                          Returned(f, f.value, f.subselection, f.errors)]
           ELSE fr' = [fr EXCEPT ![pos] = f]
                      @@ (Append(pos, f.next) :>
                              NewFrame(SequenceChildParent(f), f.dir, f.df))
    /\ UNCHANGED <<plan, variables, pc, primary, dt, primaryCh, fetchCh, queue,
                   stream, rx, lost>>

(***************************************************************************)
(* PlanNode::execute_recursively, Parallel.                                *)
(***************************************************************************)
ParallelInit == Null
ParallelChildParent(f) == f.parent
\* An assignment in place of the merge.
ParallelOverwrite(value, v) == v
ParallelMerge(value, v) == DeepMerge(value, v)

\* Every child's future is created, with the node's own parent_value.
ParallelEnter(pos) ==
    /\ fr[pos].st = "created"
    /\ Node(pos).kind = "Parallel"
    /\ LET f == [fr[pos] EXCEPT !.value = ParallelInit, !.errors = <<>>]
           n == Len(Node(pos).nodes)
       IN  IF n = 0
           THEN fr' = [fr EXCEPT ![pos] = Returned(f, f.value, None, f.errors)]
           ELSE fr' = [fr EXCEPT ![pos] = [f EXCEPT !.st = "running"]]
                      @@ [c \in {Append(pos, i) : i \in 1..n} |->
                              NewFrame(ParallelChildParent(f), f.dir, f.df)]
    /\ UNCHANGED <<plan, variables, pc, primary, dt, primaryCh, fetchCh, queue,
                   stream, rx, lost>>

\* The stream of futures yields a child that has completed, in any order.
ParallelJoin(pos, i) ==
    /\ fr[pos].st = "running"
    /\ Node(pos).kind = "Parallel"
    /\ i \in (1..Len(Node(pos).nodes)) \ fr[pos].merged
    /\ fr[Append(pos, i)].st = "done"
    /\ LET c == fr[Append(pos, i)]
           f == [fr[pos] EXCEPT !.value = ParallelMerge(@, c.value),
                                !.errors = @ \o c.errors,
                                !.merged = @ \cup {i}]
       IN  IF f.merged = 1..Len(Node(pos).nodes)
           THEN fr' = [fr EXCEPT ![pos] = Returned(f, f.value, None, f.errors)]
           ELSE fr' = [fr EXCEPT ![pos] = f]
    /\ UNCHANGED <<plan, variables, pc, primary, dt, primaryCh, fetchCh, queue,
                   stream, rx, lost>>

(***************************************************************************)
(* PlanNode::execute_recursively, Flatten.                                 *)
(***************************************************************************)
\* Path::join.
Join(current_dir, path) == current_dir \o path
\* The child executed at the Flatten's own current_dir.
FlattenDirUnchanged(f, path) == f.dir
\* let current_dir = current_dir.join(path).
FlattenDir(f, path) == Join(f.dir, path)

FlattenEnter(pos) ==
    /\ fr[pos].st = "created"
    /\ Node(pos).kind = "Flatten"
    /\ fr' = [fr EXCEPT ![pos].st = "running"]
             @@ (Append(pos, 1) :>
                    NewFrame(fr[pos].parent, FlattenDir(fr[pos], Node(pos).path),
                             fr[pos].df))
    /\ UNCHANGED <<plan, variables, pc, primary, dt, primaryCh, fetchCh, queue,
                   stream, rx, lost>>

FlattenJoin(pos) ==
    /\ fr[pos].st = "running"
    /\ Node(pos).kind = "Flatten"
    /\ fr[Append(pos, 1)].st = "done"
    /\ LET c == fr[Append(pos, 1)]
       IN  fr' = [fr EXCEPT ![pos] =
                     Returned(@, c.value, c.subselection, c.errors)]
    /\ UNCHANGED <<plan, variables, pc, primary, dt, primaryCh, fetchCh, queue,
                   stream, rx, lost>>

(***************************************************************************)
(* PlanNode::execute_recursively, Fetch.                                   *)
(***************************************************************************)
\* fetch_node on success: the subgraph's data at current_dir, and its errors
\* with their paths rebased by current_dir.
FetchValue(n, f) == FromPath(f.dir, n.data)
FetchErrors(n, f) ==
    [i \in 1..Len(n.gqlErrors) |->
        Error(n.gqlErrors[i].message, Some(Join(f.dir, n.gqlErrors[i].path)))]

\* A new channel for every depends, inserted over the one the map holds.
SubscribeAnew(deferred_fetches, id, channel) ==
    [x \in DOMAIN deferred_fetches \cup {id} |->
        IF x = id THEN channel ELSE deferred_fetches[x]]

\* match deferred_fetches.get(&d.id): without a sender for the id a new
\* channel is made and its sender inserted; otherwise the sender the map
\* holds is subscribed to and the map is left as it is.  A channel is named
\* after the deferred node and the depends it was made for.
Subscribe(deferred_fetches, id, channel) ==
    IF id \in DOMAIN deferred_fetches
    THEN deferred_fetches
    ELSE deferred_fetches @@ (id :> channel)

\* for d in self.depends.iter(): deferred_fetches after the first k depends
\* of the j-th deferred node.
RECURSIVE DependsLoop(_, _, _, _)
DependsLoop(deferred_fetches, j, depends, k) ==
    IF k = 0 THEN deferred_fetches
    ELSE Subscribe(DependsLoop(deferred_fetches, j, depends, k - 1),
                   depends[k], <<j, k>>)

\* for deferred_node in deferred: deferred_fetches after the first j
\* deferred nodes of the Defer n.
RECURSIVE DeferredLoop(_, _)
DeferredLoop(n, j) ==
    IF j = 0 THEN <<>>
    ELSE DependsLoop(DeferredLoop(n, j - 1), j, n.deferred[j].depends,
                     Len(n.deferred[j].depends))

\* The deferred_fetches the primary node is executed with.
DeferredFetches(n) == DeferredLoop(n, Len(n.deferred))

\* The channel of the receiver the j-th deferred node has for its k-th
\* depends.
ReceiverChannel(n, j, k) ==
    DependsLoop(DeferredLoop(n, j - 1), j, n.deferred[j].depends, k)
        [n.deferred[j].depends[k]]

\* The receiver belongs to the channel whose sender deferred_fetches holds;
\* the senders of any other channel have been dropped.
Registered(n, j, k) ==
    ReceiverChannel(n, j, k) = DeferredFetches(n)[n.deferred[j].depends[k]]

\* The receivers of a fetch id's channel: the deferred nodes of the Defer
\* that still wait for it.
FetchReceivers(defer, id) ==
    Cardinality({d \in DOMAIN dt :
        /\ Parent(d) = defer
        /\ \E k \in dt[d].pending :
              /\ Node(defer).deferred[Last(d) - 1].depends[k] = id
              /\ dt[d].registered[k]})

\* fetch_node sends (value, errors) on the sender deferred_fetches holds for
\* the fetch's id, if any.
FetchNotify(n, f, value, errors) ==
    IF /\ n.id # None
       /\ f.df # None
       /\ <<f.df[1], n.id[1]>> \in DOMAIN fetchCh
    THEN [fetchCh EXCEPT ![<<f.df[1], n.id[1]>>] =
             BcSend(@, [value |-> value, errors |-> errors],
                    FetchReceivers(f.df[1], n.id[1]))]
    ELSE fetchCh

\* to_graphql_error(None).
FetchErrorNoPath(f) == None
\* FetchError::to_graphql_error(Some(current_dir)).
FetchErrorPath(f) == Some(f.dir)
FetchFailure(f) == <<Error("fetch error", FetchErrorPath(f))>>
FetchFailureValue == Null

\* Ok((v, e)).
FetchOk(pos) ==
    /\ fr[pos].st = "created"
    /\ Node(pos).kind = "Fetch"
    /\ LET n == Node(pos)
           f == fr[pos]
       IN  /\ fr' = [fr EXCEPT ![pos] =
                        Returned(f, FetchValue(n, f), None, FetchErrors(n, f))]
           /\ fetchCh' = FetchNotify(n, f, FetchValue(n, f), FetchErrors(n, f))
    /\ UNCHANGED <<plan, variables, pc, primary, dt, primaryCh, queue, stream,
                   rx, lost>>

\* Err(err): the transport failed.
FetchErr(pos) ==
    /\ fr[pos].st = "created"
    /\ Node(pos).kind = "Fetch"
    /\ Node(pos).canFail
    /\ fr' = [fr EXCEPT ![pos] =
                 [Returned(@, FetchFailureValue, None, FetchFailure(@))
                     EXCEPT !.failed = TRUE]]
    /\ UNCHANGED <<plan, variables, pc, primary, dt, primaryCh, fetchCh, queue,
                   stream, rx, lost>>

(***************************************************************************)
(* PlanNode::execute_recursively, Condition.                               *)
(***************************************************************************)
\* Query::variable_value: the request's value of the variable, if it has one.
VariableValue(name) == IF variables = "absent" THEN None ELSE Some(variables)
\* A default of false.
ConditionValueDefaultFalse(name) == UnwrapOr(VariableValue(name), "false")
ConditionValue(name) == UnwrapOr(VariableValue(name), "true")

\* Every value but false and null counts as true.
ConditionIsTruthy(v) == v \notin {"false", "null"}

\* if let &Value::Bool(true) = v
ConditionIsTrue(v) == v = "true"

\* The clause executed: 1 (if_clause), 2 (else_clause) or 0 (none).
ConditionClause(n) ==
    IF ConditionIsTrue(ConditionValue(n.condition))
    THEN (IF n.ifClause # None THEN 1 ELSE 0)
    ELSE (IF n.elseClause # None THEN 2 ELSE 0)

ConditionEnter(pos) ==
    /\ fr[pos].st = "created"
    /\ Node(pos).kind = "Condition"
    /\ LET c == ConditionClause(Node(pos))
           f == [fr[pos] EXCEPT !.value = Null, !.errors = <<>>, !.next = c]
       IN  IF c = 0
           THEN fr' = [fr EXCEPT ![pos] = Returned(f, f.value, None, f.errors)]
           ELSE fr' = [fr EXCEPT ![pos] = [f EXCEPT !.st = "running"]]
                      @@ (Append(pos, c) :> NewFrame(f.parent, f.dir, f.df))
    /\ UNCHANGED <<plan, variables, pc, primary, dt, primaryCh, fetchCh, queue,
                   stream, rx, lost>>

ConditionJoin(pos) ==
    /\ fr[pos].st = "running"
    /\ Node(pos).kind = "Condition"
    /\ fr[Append(pos, fr[pos].next)].st = "done"
    /\ LET c == fr[Append(pos, fr[pos].next)]
       IN  fr' = [fr EXCEPT ![pos] =
                     Returned(@, DeepMerge(@.value, c.value), c.subselection,
                              @.errors \o c.errors)]
    /\ UNCHANGED <<plan, variables, pc, primary, dt, primaryCh, fetchCh, queue,
                   stream, rx, lost>>

(***************************************************************************)
(* PlanNode::execute_recursively, Defer, and DeferredNode::execute.        *)
(***************************************************************************)
Range(seq) == {seq[i] : i \in 1..Len(seq)}
DeferredAt(d) == Node(Parent(d)).deferred[Last(d) - 1]

\* What DeferredNode::execute does before it returns its future: a receiver
\* for each of its depends (on the channel deferred_fetches holds for the id,
\* or on a new one it registers), a receiver of the primary channel, and a
\* copy of the Defer's parent_value.  receivers and primaryReceiver are the
\* receivers' cursors; registered says of each whether its channel is the
\* one deferred_fetches holds; pending are the depends not yet received;
\* primaryReceived are the results of the receives on the primary channel;
\* chunk is the Response sent.
NewDeferred(parent_value, deferred_node, registered) ==
    [st |-> "waiting", value |-> parent_value, errors |-> <<>>,
     registered |-> registered,
     pending |-> 1..Len(deferred_node.depends),
     receivers |-> [k \in 1..Len(deferred_node.depends) |-> BcSubscribe(BcNew)],
     primaryReceiver |-> BcSubscribe(BcNew),
     primaryReceived |-> <<>>, chunk |-> None]

\* The ids deferred_fetches holds once every deferred node has registered.
DeferredFetchIds(n) == UNION {Range(n.deferred[j].depends) : j \in 1..Len(n.deferred)}

\* The deferred nodes of a Defer that still hold their primary receiver.
PrimaryReceivers(pos) ==
    Cardinality({d \in DOMAIN dt : Parent(d) = pos /\ dt[d].st # "done"})

\* The value as it was before the primary node's value was merged.
PrimaryValueStale(f) == f.parent

\* primary_sender.send(value.clone()).
PrimaryValueSent(f) == f.value

\* The subselection the primary node returned.
DeferSubselectionOfNode(n, subselect) == subselect

\* subselection = primary_subselection.clone(): what the primary node
\* returned (_subselect) is not used.
DeferSubselection(n, subselect) == n.primarySubselection

\* The senders of deferred_fetches outlive the Defer arm.
CloseFetchChannelsKept(pos, ch) == ch

\* The end of the Defer arm drops primary_sender and deferred_fetches.
CloseFetchChannels(pos, ch) ==
    [c \in DOMAIN ch |-> IF c[1] = pos THEN BcClose(ch[c]) ELSE ch[c]]

\* The futures of the deferred nodes are created and spawned; then the
\* primary node, if any, is executed with the Defer's deferred_fetches;
\* without a primary node the primary value is sent at once.
DeferEnter(pos) ==
    /\ fr[pos].st = "created"
    /\ Node(pos).kind = "Defer"
    /\ LET n == Node(pos)
           f == [fr[pos] EXCEPT !.value = fr[pos].parent, !.errors = <<>>]
           tasks == [d \in {Append(pos, j + 1) : j \in 1..Len(n.deferred)} |->
                        NewDeferred(fr[pos].parent, n.deferred[Last(d) - 1],
                            [k \in 1..Len(n.deferred[Last(d) - 1].depends) |->
                                Registered(n, Last(d) - 1, k)])]
           channels == [c \in {<<pos, id>> : id \in DeferredFetchIds(n)} |-> BcNew]
       IN  /\ dt' = dt @@ tasks
           /\ IF n.nodes # None
              THEN /\ fr' = [fr EXCEPT ![pos] = [f EXCEPT !.st = "running"]]
                            @@ (Append(pos, 1) :> NewFrame(f.value, f.dir, Some(pos)))
                   /\ primaryCh' = primaryCh @@ (pos :> BcNew)
                   /\ fetchCh' = fetchCh @@ channels
              ELSE /\ fr' = [fr EXCEPT ![pos] =
                                Returned(f, f.value, n.primarySubselection, f.errors)]
                   /\ primaryCh' = primaryCh @@
                        (pos :> BcClose(BcSend(BcNew, PrimaryValueSent(f),
                                               Len(n.deferred))))
                   /\ fetchCh' = CloseFetchChannels(pos, fetchCh @@ channels)
    /\ UNCHANGED <<plan, variables, pc, primary, queue, stream, rx, lost>>

\* The primary node has returned: its value is merged, the primary value is
\* sent, and the Defer returns it with primary.subselection.
DeferJoin(pos) ==
    /\ fr[pos].st = "running"
    /\ Node(pos).kind = "Defer"
    /\ fr[Append(pos, 1)].st = "done"
    /\ LET c == fr[Append(pos, 1)]
           f == [fr[pos] EXCEPT !.value = DeepMerge(@, c.value),
                                !.errors = @ \o c.errors]
       IN  /\ fr' = [fr EXCEPT ![pos] =
                        Returned(f, f.value,
                                 DeferSubselection(Node(pos), c.subselection), f.errors)]
           /\ primaryCh' = [primaryCh EXCEPT ![pos] =
                               BcClose(BcSend(@, PrimaryValueSent(f),
                                              PrimaryReceivers(pos)))]
           /\ fetchCh' = CloseFetchChannels(pos, fetchCh)
    /\ UNCHANGED <<plan, variables, pc, primary, dt, queue, stream, rx, lost>>

\* A receive on the primary receiver of deferred node d: the task with the
\* result recorded and the cursor moved.
PrimaryRecv(d) == BcRecv(primaryCh[Parent(d)], dt[d].primaryReceiver)

\* A receive on the primary receiver that does not wait.
PrimaryReadyNow(d) == TRUE

\* primary_receiver.recv().await returns once the primary value has been
\* sent or the primary sender is gone.
PrimaryReady(d) == BcReady(primaryCh[Parent(d)], dt[d].primaryReceiver)
AfterPrimaryRecv(d) ==
    [dt[d] EXCEPT !.primaryReceived = Append(@, PrimaryRecv(d)),
                  !.primaryReceiver = IF PrimaryRecv(d) # None THEN @ + 1 ELSE @]

\* After the waits: the inner node, if any, is executed at the empty path
\* with the merged value as parent and an empty deferred_fetches.
StartInner(d, t) ==
    IF DeferredAt(d).node # None
    THEN /\ dt' = [dt EXCEPT ![d] = [t EXCEPT !.st = "inner"]]
         /\ fr' = fr @@ (d :> NewFrame(t.value, <<>>, None))
    ELSE /\ dt' = [dt EXCEPT ![d] = [t EXCEPT !.st = "primary"]]
         /\ fr' = fr

\* depends is empty: the node waits for the primary value.
DeferredRecvPrimary(d) ==
    /\ dt[d].st = "waiting"
    /\ DeferredAt(d).depends = <<>>
    /\ PrimaryReady(d)
    /\ StartInner(d, [AfterPrimaryRecv(d) EXCEPT
                         !.value = DeepMerge(@, UnwrapOr(PrimaryRecv(d), Null))])
    /\ UNCHANGED <<plan, variables, pc, primary, primaryCh, fetchCh, queue,
                   stream, rx, lost>>

\* A receive that does not wait.
DependsReadyNow(d, k) == TRUE

\* stream.next().await: the receiver of the k-th depends yields a value or
\* the end of its channel.
DependsReady(d, k) ==
    dt[d].registered[k] =>
        BcReady(fetchCh[<<Parent(d), DeferredAt(d).depends[k]>>], dt[d].receivers[k])

\* depends is not empty: the node takes what each of its receivers yields, a
\* value with its errors or the end of the channel, in the order they come.
DeferredRecvDepends(d, k) ==
    /\ dt[d].st = "waiting"
    /\ k \in dt[d].pending
    /\ LET ch == fetchCh[<<Parent(d), DeferredAt(d).depends[k]>>]
           r == IF dt[d].registered[k]
                THEN BcRecv(ch, dt[d].receivers[k])
                ELSE None
           t == [dt[d] EXCEPT
                    !.value = IF r # None THEN DeepMerge(@, r[1].value) ELSE @,
                    !.errors = IF r # None THEN @ \o r[1].errors ELSE @,
                    !.pending = @ \ {k}]
       IN  /\ DependsReady(d, k)
           /\ IF t.pending = {}
              THEN StartInner(d, t)
              ELSE dt' = [dt EXCEPT ![d] = t] /\ fr' = fr
    /\ UNCHANGED <<plan, variables, pc, primary, primaryCh, fetchCh, queue,
                   stream, rx, lost>>

\* DeferredNode::subselection.
DeferredSubselection(deferred_node) == deferred_node.subselection
\* Option::or.
Or(a, b) == IF a # None THEN a ELSE b

\* tx.send(response) and tx.disconnect(): the Response is queued unless the
\* receiver is gone, in which case the send fails and the error is logged.
SendChunk(d, t, response) ==
    /\ dt' = [dt EXCEPT ![d] = [t EXCEPT !.st = "done", !.chunk = Some(response)]]
    /\ IF rx = "dropped"
       THEN queue' = queue /\ lost' = lost \cup {d}
       ELSE queue' = Append(queue, response) /\ lost' = lost

\* A Response built without and_path.
InnerChunkNoPath(d, v, err, node_subselection) ==
    Response(v, err, None,
             Or(DeferredSubselection(DeferredAt(d)), node_subselection),
             DeferredAt(d).label)

\* The inner node's subselection whenever it returned one.
ChunkSubselectionInnerFirst(declared, node_subselection) ==
    Or(node_subselection, declared)

\* subselection.or(node_subselection).
ChunkSubselection(declared, node_subselection) ==
    Or(declared, node_subselection)

\* The Response of a deferred node that has an inner node.
InnerChunk(d, v, err, node_subselection) ==
    Response(v, err, Some(DeferredAt(d).path),
             ChunkSubselection(DeferredSubselection(DeferredAt(d)), node_subselection),
             DeferredAt(d).label)
\* A Response built without and_label.
NoInnerChunkNoLabel(d, value, errors) ==
    Response(value, errors, Some(DeferredAt(d).path),
             DeferredSubselection(DeferredAt(d)), None)

\* The Response of a deferred node without inner node.
NoInnerChunk(d, value, errors) ==
    Response(value, errors, Some(DeferredAt(d).path),
             DeferredSubselection(DeferredAt(d)), DeferredAt(d).label)

\* The inner node's value merged into the primary value.
InnerResultUnder(v, primary_value) == DeepMerge(primary_value, v)

\* v.deep_merge(primary_value).
InnerResult(v, primary_value) == DeepMerge(v, primary_value)

\* The inner node has returned: when depends is not empty the primary value
\* is received and merged into the inner node's value; the chunk is sent.
DeferredFinishInner(d) ==
    /\ dt[d].st = "inner"
    /\ fr[d].st = "done"
    /\ IF DeferredAt(d).depends # <<>>
       THEN /\ PrimaryReady(d)
            /\ SendChunk(d, AfterPrimaryRecv(d),
                   InnerChunk(d, InnerResult(fr[d].value, UnwrapOr(PrimaryRecv(d), Null)),
                              fr[d].errors, fr[d].subselection))
       ELSE SendChunk(d, dt[d],
                InnerChunk(d, fr[d].value, fr[d].errors, fr[d].subselection))
    /\ UNCHANGED <<plan, variables, pc, primary, fr, primaryCh, fetchCh, stream, rx>>

\* No inner node: the primary value is received and merged into the value
\* the node has collected; the chunk is sent.
DeferredFinishNoInner(d) ==
    /\ dt[d].st = "primary"
    /\ PrimaryReady(d)
    /\ SendChunk(d, AfterPrimaryRecv(d),
           NoInnerChunk(d, DeepMerge(dt[d].value, UnwrapOr(PrimaryRecv(d), Null)),
                        dt[d].errors))
    /\ UNCHANGED <<plan, variables, pc, primary, fr, primaryCh, fetchCh, stream, rx>>

(***************************************************************************)
(* The response sender and the caller's stream.                            *)
(***************************************************************************)
\* Whether a call of execute_recursively holds a response sender: it does
\* until it returns, unless it has moved it into its child (Flatten, and
\* Defer with a primary node).
HoldsSender(pos) ==
    /\ fr[pos].st # "done"
    /\ ~(/\ fr[pos].st = "running"
         /\ \/ Node(pos).kind = "Flatten"
            \/ Node(pos).kind = "Defer" /\ Node(pos).nodes # None)

\* A deferred node that holds no clone of its own.
DeferredHoldsNoSender(d) == FALSE

\* A deferred node's future holds its clone of the sender from its creation
\* until it has sent its chunk and disconnected.
DeferredHoldsSender(d) == dt[d].st # "done"

\* The live clones of the response sender: the one execute is given, those
\* of the calls of execute_recursively, those of the deferred nodes.
SenderCount ==
    (IF pc = "init" THEN 1 ELSE 0)
    + Cardinality({pos \in DOMAIN fr : HoldsSender(pos)})
    + Cardinality({d \in DOMAIN dt : DeferredHoldsSender(d)})

\* The caller's stream yields the Response execute returned, then what the
\* receiver yields.
ClientRecvPrimary ==
    /\ rx = "open"
    /\ pc = "returned"
    /\ stream = <<>>
    /\ stream' = <<primary[1]>>
    /\ UNCHANGED <<plan, variables, pc, primary, fr, dt, primaryCh, fetchCh,
                   queue, rx, lost>>

ClientRecv ==
    /\ rx = "open"
    /\ stream # <<>>
    /\ queue # <<>>
    /\ stream' = Append(stream, Head(queue))
    /\ queue' = Tail(queue)
    /\ UNCHANGED <<plan, variables, pc, primary, fr, dt, primaryCh, fetchCh,
                   rx, lost>>

\* The receiver yields the end of the stream once the queue is empty and no
\* sender is left.
ClientEnd ==
    /\ rx = "open"
    /\ stream # <<>>
    /\ queue = <<>>
    /\ SenderCount = 0
    /\ rx' = "ended"
    /\ UNCHANGED <<plan, variables, pc, primary, fr, dt, primaryCh, fetchCh,
                   queue, stream, lost>>

\* The caller drops the stream it has been given.
ClientDrop ==
    /\ rx = "open"
    /\ stream # <<>>
    /\ rx' = "dropped"
    /\ UNCHANGED <<plan, variables, pc, primary, fr, dt, primaryCh, fetchCh,
                   queue, stream, lost>>

(***************************************************************************)
(* The event sources of a router.  A source stream is a body followed by   *)
(* its NoMore marker: items are what the body has ready (the contents of a *)
(* fixed stream, the items a user's stream was given, the notifications of *)
(* a file watcher), closed says that the body yields nothing after them,   *)
(* marker that the marker is still to come.                                *)
(***************************************************************************)
Fixed(items) == [body |-> "fixed", items |-> items, closed |-> TRUE, marker |-> TRUE]
UserStream == [body |-> "stream", items |-> <<>>, closed |-> FALSE, marker |-> TRUE]

\* files::watch: a notification at once, then one for every change of the
\* file; it never ends.
FilesWatch == [body |-> "watch", items |-> <<0>>, closed |-> FALSE, marker |-> TRUE]

\* read_config and read_schema, as the Option .ok() makes of their Result.
ReadConfig(file) == IF file.exists /\ file.valid THEN Some(file.v) ELSE None
ReadSchema(file) == IF file.exists /\ file.valid THEN Some(file.v) ELSE None

\* A configuration file that is watched whether or not it could be read.
ConfigurationIntoStreamWatchAnyway(kind, file) ==
    CASE kind.kind = "Instance" -> Fixed(<<kind.v>>)
      [] kind.kind = "Stream" -> UserStream
      [] OTHER -> IF kind.watch THEN FilesWatch
                  ELSE IF ReadConfig(file) # None THEN Fixed(ReadConfig(file))
                  ELSE Fixed(<<>>)

\* ConfigurationKind::into_stream, up to the marker: the body of the stream.
ConfigurationIntoStream(kind, file) ==
    CASE kind.kind = "Instance" -> Fixed(<<kind.v>>)
      [] kind.kind = "Stream" -> UserStream
      [] OTHER ->
            IF ~file.exists THEN Fixed(<<>>)
            ELSE IF ReadConfig(file) # None
                 THEN IF kind.watch THEN FilesWatch ELSE Fixed(ReadConfig(file))
                 ELSE Fixed(<<>>)

\* SchemaKind::into_stream, up to the marker.
SchemaIntoStream(kind, file) ==
    CASE kind.kind = "Instance" -> Fixed(<<kind.v>>)
      [] kind.kind = "Stream" -> UserStream
      [] OTHER ->
            IF ~file.exists THEN Fixed(<<>>)
            ELSE IF ReadSchema(file) # None
                 THEN IF kind.watch THEN FilesWatch ELSE Fixed(ReadSchema(file))
                 ELSE Fixed(<<>>)

\* A watcher that takes every notification for a valid file.
ConfigurationWatchEventUnfiltered(file) == Some(file.v)

\* What a notification of the watcher becomes: filter_map keeps the
\* configuration (the schema) read_config (read_schema) returns, if any.
ConfigurationWatchEvent(file) == ReadConfig(file)
SchemaWatchEvent(file) == ReadSchema(file)

\* A source stream whose marker can be yielded again.
ConfigurationMarkerAgain == TRUE

\* .chain(stream::iter(vec![NoMoreConfiguration])): once the marker has been
\* yielded the stream has ended.
ConfigurationMarkerLeft == FALSE
SchemaMarkerLeft == FALSE

UpdateOf(s, v) == IF s = "configuration" THEN UpdateConfiguration(v) ELSE UpdateSchema(v)
MarkerOf(s) == IF s = "configuration" THEN NoMoreConfiguration ELSE NoMoreSchema
MarkerLeft(s) == IF s = "configuration" THEN ConfigurationMarkerLeft ELSE SchemaMarkerLeft
WatchEvent(s, file) ==
    IF s = "configuration" THEN ConfigurationWatchEvent(file) ELSE SchemaWatchEvent(file)

\* What the environment may do to a source by the time it is polled: give
\* the user's stream an item or end it, rewrite the watched file with a
\* valid content or with garbage; or nothing, when the source has something
\* ready or is fixed.
Inputs(s) ==
    LET x == sources[s] IN
    IF x.items # <<>> \/ x.closed THEN {"none"}
    ELSE IF x.body = "stream"
         THEN {"end"} \cup (IF feeds < MaxFeeds THEN {"item"} ELSE {})
         ELSE IF feeds < MaxFeeds THEN {"valid", "garbage"} ELSE {}

\* The file after the environment's input.
Written(s, input) ==
    CASE input = "valid" -> Valid(feeds + 2)
      [] input = "garbage" -> Garbage
      [] OTHER -> files[s]

\* The source after the environment's input: the watcher is notified of the
\* change of its file.
Fed(s, input) ==
    LET x == sources[s] IN
    CASE input = "item" -> [x EXCEPT !.items = Append(@, feeds + 1)]
      [] input = "end" -> [x EXCEPT !.closed = TRUE]
      [] input \in {"valid", "garbage"} -> [x EXCEPT !.items = Append(@, 0)]
      [] OTHER -> x

\* Whether a poll of the source finds something to do.
SourceReady(x) == x.items # <<>> \/ (x.closed /\ x.marker)

\* What a poll of a ready source yields (nothing, for a notification that
\* filter_map drops), and the source after it.
SourceItem(s, x, file) ==
    IF x.items = <<>> THEN Some(MarkerOf(s))
    ELSE IF x.body = "watch"
         THEN IF WatchEvent(s, file) # None
              THEN Some(UpdateOf(s, WatchEvent(s, file)[1]))
              ELSE None
         ELSE Some(UpdateOf(s, Head(x.items)))

SourcePolled(s, x) ==
    IF x.items = <<>> THEN [x EXCEPT !.marker = MarkerLeft(s)]
    ELSE [x EXCEPT !.items = Tail(@)]

\* ShutdownKind::into_stream and the stream of the handle's receiver: the
\* first is pending for ever for ShutdownKind::None and yields Shutdown once
\* the custom future has resolved or Ctrl-C was received; the second yields
\* Shutdown once the handle's sender has sent or has been dropped.
ShutdownCauses ==
    (IF router[1].shutdown # "None" /\ signals.future = "pending"
     THEN {"future"} ELSE {})
    \cup (IF signals.handle = "held" THEN {"sent", "dropped"} ELSE {})

(***************************************************************************)
(* The lifecycle state machine and the HTTP server it starts.               *)
(***************************************************************************)
Factory(configuration, schema) == [configuration |-> configuration, schema |-> schema]

\* The state and what it is published with: Running carries the schema.
Published(m) ==
    [state |-> m.state,
     schema |-> IF m.state = "Running" THEN m.factory[1].schema ELSE 0]

Publish(m) == [m EXCEPT !.published = Append(@, Published(m))]

\* Startup left for Running as soon as a configuration is there.
MaybeRunningEarly(m) ==
    IF m.configuration # None
    THEN Publish([m EXCEPT !.state = "Running",
                           !.factory = Some(Factory(m.configuration[1],
                                IF m.schema # None THEN m.schema[1] ELSE 0))])
    ELSE m

\* Startup: Running is entered with the factory built from the stored
\* configuration and schema once both are there.
MaybeRunning(m) ==
    IF m.configuration # None /\ m.schema # None
    THEN Publish([m EXCEPT !.state = "Running",
                           !.factory = Some(Factory(m.configuration[1], m.schema[1]))])
    ELSE m

\* Startup: the machine fails as soon as a source ends.
SourceEndedAtOnce(m, s) ==
    Publish([m EXCEPT !.ended = @ \cup {s}, !.state = "Errored"])

\* Startup: a source has ended; the machine has failed once both have.
SourceEnded(m, s) ==
    LET n == [m EXCEPT !.ended = @ \cup {s}] IN
    IF n.ended = {"configuration", "schema"}
    THEN Publish([n EXCEPT !.state = "Errored"])
    ELSE n

\* Running: the factory is rebuilt but the server keeps the one it has.
ReloadNotSwapped(m, built) ==
    IF built THEN Publish(m) ELSE Publish([m EXCEPT !.state = "Errored"])

\* Running: the factory is rebuilt and swapped in; built says whether the
\* build succeeded.
Reload(m, built) ==
    IF built
    THEN Publish([m EXCEPT !.factory = Some(Factory(m.configuration[1], m.schema[1]))])
    ELSE Publish([m EXCEPT !.state = "Errored"])

\* Stopped or Errored, left for Stopped on Shutdown.
TerminalStops(m, event) ==
    IF event.type = "Shutdown" /\ m.state # "Stopped"
    THEN Publish([m EXCEPT !.state = "Stopped"]) ELSE m

\* Stopped and Errored: every event is ignored.
Terminal(m, event) == m

\* The transition table.
Transition(m, event, built) ==
    CASE m.state = "Startup" ->
            CASE event.type = "UpdateConfiguration" ->
                    MaybeRunning([m EXCEPT !.configuration = Some(event.v)])
              [] event.type = "UpdateSchema" ->
                    MaybeRunning([m EXCEPT !.schema = Some(event.v)])
              [] event.type = "NoMoreConfiguration" -> SourceEnded(m, "configuration")
              [] event.type = "NoMoreSchema" -> SourceEnded(m, "schema")
              [] OTHER -> Publish([m EXCEPT !.state = "Stopped"])
      [] m.state = "Running" ->
            CASE event.type = "UpdateConfiguration" ->
                    Reload([m EXCEPT !.configuration = Some(event.v)], built)
              [] event.type = "UpdateSchema" ->
                    Reload([m EXCEPT !.schema = Some(event.v)], TRUE)
              [] event.type = "Shutdown" -> Publish([m EXCEPT !.state = "Stopped"])
              [] OTHER -> m
      [] OTHER -> Terminal(m, event)

(***************************************************************************)
(* ApolloRouter::serve and generate_event_stream.                          *)
(***************************************************************************)
\* serve creates the state machine and spawns the task that feeds it the
\* unified event stream; into_stream looks at the files as they are then.
Serve ==
    /\ router # None
    /\ merged = "none"
    /\ sources' = [s \in {"configuration", "schema"} |->
                     IF s = "configuration"
                     THEN ConfigurationIntoStream(router[1].configuration, files[s])
                     ELSE SchemaIntoStream(router[1].schema, files[s])]
    /\ snapshot' = files
    /\ merged' = "open"
    /\ machine' = Publish(StateMachine("Startup"))
    /\ UNCHANGED <<router, files, signals, events, feeds, requests>>

\* A take_while that lets every message through.
TakeWhileAll(msg) == TRUE

\* .take_while(|msg| !matches!(msg, Shutdown))
TakeWhile(msg) == msg.type # "Shutdown"

\* .chain(stream::iter(vec![Shutdown]))
Chained == <<Shutdown>>

\* What the unified stream yields for what select_all yields, and whether
\* it ends with it: a message that take_while refuses ends the selection,
\* and the chained Shutdown follows.  (select_all itself cannot end before:
\* the two shutdown streams yield nothing but Shutdown.)
Yielded(item) ==
    IF item = None THEN [out |-> <<>>, ended |-> FALSE]
    ELSE IF TakeWhile(item[1]) THEN [out |-> item, ended |-> FALSE]
    ELSE [out |-> Chained, ended |-> TRUE]

\* process_events: the state machine handles the event the unified stream
\* yields; built says whether a factory build succeeds.
Process(yielded, built) ==
    /\ events' = events \o yielded.out
    /\ merged' = (IF yielded.ended THEN "ended" ELSE merged)
    /\ machine' = (IF yielded.out = <<>> THEN machine
                   ELSE Transition(machine, yielded.out[1], built))

\* The outcomes of the factory build the event may start.
Builds(m, yielded) ==
    IF /\ m.state = "Running"
       /\ yielded.out # <<>>
       /\ yielded.out[1].type = "UpdateConfiguration"
    THEN BOOLEAN ELSE {TRUE}

\* The state machine polls the unified stream and select_all yields what the
\* configuration or the schema stream has, after the environment's input.
SelectSource(s, input) ==
    /\ merged = "open"
    /\ input \in Inputs(s)
    /\ SourceReady(Fed(s, input))
    /\ files' = [files EXCEPT ![s] = Written(s, input)]
    /\ feeds' = (IF input \in {"item", "valid", "garbage"} THEN feeds + 1 ELSE feeds)
    /\ sources' = [sources EXCEPT ![s] = SourcePolled(s, Fed(s, input))]
    /\ LET yielded == Yielded(SourceItem(s, Fed(s, input), files'[s])) IN
       \E built \in Builds(machine, yielded) : Process(yielded, built)
    /\ UNCHANGED <<router, snapshot, signals, requests>>

\* A stream that yields Shutdown for a value sent and nothing for a sender
\* dropped.
ReceiverIntoStreamSent(result) == IF result = "sent" THEN Some(Shutdown) ELSE None

\* shutdown_receiver.into_stream().map(|_| Shutdown): the receiver's result,
\* the value sent or the error of a sender dropped, becomes a Shutdown.
ReceiverIntoStream(result) == Some(Shutdown)

\* The state machine polls the unified stream and select_all yields the
\* Shutdown of one of the two shutdown streams: the shutdown future has
\* resolved, the handle has sent on its shutdown sender (shutdown()), or the
\* handle and its sender were dropped.
SelectShutdown(cause) ==
    /\ merged = "open"
    /\ cause \in ShutdownCauses
    /\ signals' = (IF cause = "future" THEN [signals EXCEPT !.future = "yielded"]
                   ELSE [signals EXCEPT !.handle = cause])
    /\ Process(Yielded(IF cause = "future" THEN Some(Shutdown)
                        ELSE ReceiverIntoStream(cause)), TRUE)
    /\ UNCHANGED <<router, files, snapshot, sources, feeds, requests>>

\* The HTTP server accepts at most MaxRequests requests in a run.
MaxRequests == 1

\* A request completes with the factory that is current when it completes.
RequestServiceCurrent(r) == machine.factory

\* A request completes with the service it entered with.
RequestService(r) == requests[r].service

\* A request enters while the server runs: it takes the factory the server
\* holds then.  epoch counts the states published before it.
RequestEnter ==
    /\ machine.state = "Running"
    /\ Len(requests) < MaxRequests
    /\ requests' = Append(requests,
          [service |-> machine.factory, epoch |-> Len(machine.published),
           st |-> "inflight", used |-> None])
    /\ UNCHANGED <<router, files, snapshot, sources, signals, events, merged,
                   feeds, machine>>

\* A request in flight completes.
RequestComplete(r) ==
    /\ requests[r].st = "inflight"
    /\ requests' = [requests EXCEPT ![r].st = "done", ![r].used = RequestService(r)]
    /\ UNCHANGED <<router, files, snapshot, sources, signals, events, merged,
                   feeds, machine>>

(***************************************************************************)
(* FederatedServerHandle.                                                  *)
(***************************************************************************)
\* The calls of ready and state_receiver followed in a run.
MaxCalls == 2

\* self.state_receiver.take(): what the field held, and the handle left
\* with None.
Take(h) == [taken |-> h.state_receiver, handle |-> [h EXCEPT !.state_receiver = "None"]]

\* .expect(..): the call panics when take() gave None.
Outcome(taken) == IF taken = "Some" THEN "receiver" ELSE "panic"

\* state_receiver(): the receiver is handed to the caller, or the call
\* panics.
StateReceiver ==
    /\ merged # "none"
    /\ signals.handle = "held"
    /\ handle.ready # "waiting"
    /\ Len(handle.calls) < MaxCalls
    /\ handle' = [Take(handle).handle EXCEPT
                     !.calls = Append(@, [op |-> "state_receiver",
                                          outcome |-> Outcome(Take(handle).taken)])]
    /\ UNCHANGED <<router, files, snapshot, sources, signals, events, merged,
                   feeds, machine, requests>>

\* ready() takes the receiver as state_receiver() does and starts reading
\* the states, or panics.
ReadyCall ==
    /\ merged # "none"
    /\ signals.handle = "held"
    /\ handle.ready # "waiting"
    /\ Len(handle.calls) < MaxCalls
    /\ handle' = [Take(handle).handle EXCEPT
                     !.calls = Append(@, [op |-> "ready",
                                          outcome |-> Outcome(Take(handle).taken)]),
                     !.ready = IF Take(handle).taken = "Some" THEN "waiting" ELSE @]
    /\ UNCHANGED <<router, files, snapshot, sources, signals, events, merged,
                   feeds, machine, requests>>

\* A map that gives every state an address.
ReadyAddressOfAny(state, i) == Some(i)

\* The map of ready: Some(address) for State::Running { address, .. }, None
\* for the other states.  The address of the i-th state published stands
\* for i.
ReadyAddress(state, i) == IF state.state = "Running" THEN Some(i) ELSE None

\* The state machine has returned and dropped its state listener: the
\* state stream ends once the states sent have been read.
StateListenerDropped == merged = "ended"

\* ready() reads the next state: the filter drops what the map gave None
\* for, and next() returns the first address left; it returns None when the
\* stream of states ends.
ReadyNext ==
    /\ handle.ready = "waiting"
    /\ IF handle.seen < Len(machine.published)
       THEN LET i == handle.seen + 1
                socket == ReadyAddress(machine.published[i], i)
            IN  handle' = [handle EXCEPT
                              !.seen = i,
                              !.ready = IF socket # None THEN "returned" ELSE @,
                              !.address = socket]
       ELSE /\ StateListenerDropped
            /\ handle' = [handle EXCEPT !.ready = "returned"]
    /\ UNCHANGED <<router, files, snapshot, sources, signals, events, merged,
                   feeds, machine, requests>>

Next ==
    \/ ExecuteCall /\ UNCHANGED besidesExecution
    \/ ExecuteReturn /\ UNCHANGED besidesExecution
    \/ \E pos \in DOMAIN fr : SequenceEnter(pos) /\ UNCHANGED besidesExecution
    \/ \E pos \in DOMAIN fr : SequenceJoin(pos) /\ UNCHANGED besidesExecution
    \/ \E pos \in DOMAIN fr : ParallelEnter(pos) /\ UNCHANGED besidesExecution
    \/ \E pos \in DOMAIN fr : \E i \in 1..Len(Node(pos).nodes) :
          ParallelJoin(pos, i) /\ UNCHANGED besidesExecution
    \/ \E pos \in DOMAIN fr : FlattenEnter(pos) /\ UNCHANGED besidesExecution
    \/ \E pos \in DOMAIN fr : FlattenJoin(pos) /\ UNCHANGED besidesExecution
    \/ \E pos \in DOMAIN fr : FetchOk(pos) /\ UNCHANGED besidesExecution
    \/ \E pos \in DOMAIN fr : FetchErr(pos) /\ UNCHANGED besidesExecution
    \/ \E pos \in DOMAIN fr : ConditionEnter(pos) /\ UNCHANGED besidesExecution
    \/ \E pos \in DOMAIN fr : ConditionJoin(pos) /\ UNCHANGED besidesExecution
    \/ \E pos \in DOMAIN fr : DeferEnter(pos) /\ UNCHANGED besidesExecution
    \/ \E pos \in DOMAIN fr : DeferJoin(pos) /\ UNCHANGED besidesExecution
    \/ \E d \in DOMAIN dt : DeferredRecvPrimary(d) /\ UNCHANGED besidesExecution
    \/ \E d \in DOMAIN dt : \E k \in dt[d].pending :
          DeferredRecvDepends(d, k) /\ UNCHANGED besidesExecution
    \/ \E d \in DOMAIN dt : DeferredFinishInner(d) /\ UNCHANGED besidesExecution
    \/ \E d \in DOMAIN dt : DeferredFinishNoInner(d) /\ UNCHANGED besidesExecution
    \/ ClientRecvPrimary /\ UNCHANGED besidesExecution
    \/ ClientRecv /\ UNCHANGED besidesExecution
    \/ ClientEnd /\ UNCHANGED besidesExecution
    \/ ClientDrop /\ UNCHANGED besidesExecution

Spec == Init /\ [][Next]_vars

\* Every step but the caller's dropping the stream: the runtime schedules
\* every task that can run, every fetch ends, and the caller keeps reading.
Progress ==
    /\ UNCHANGED besidesExecution
    /\ \/ ExecuteCall
       \/ ExecuteReturn
       \/ \E pos \in DOMAIN fr :
             \/ SequenceEnter(pos) \/ SequenceJoin(pos)
             \/ ParallelEnter(pos)
             \/ \E i \in 1..Len(Node(pos).nodes) : ParallelJoin(pos, i)
             \/ FlattenEnter(pos) \/ FlattenJoin(pos)
             \/ FetchOk(pos)
             \/ ConditionEnter(pos) \/ ConditionJoin(pos)
             \/ DeferEnter(pos) \/ DeferJoin(pos)
       \/ \E d \in DOMAIN dt :
             \/ DeferredRecvPrimary(d)
             \/ \E k \in dt[d].pending : DeferredRecvDepends(d, k)
             \/ DeferredFinishInner(d)
             \/ DeferredFinishNoInner(d)
       \/ ClientRecvPrimary
       \/ ClientRecv
       \/ ClientEnd

FairSpec == Spec /\ WF_vars(Progress)

(***************************************************************************)
(* The run of a router: it has been built, its files are as the            *)
(* environment left them, and no plan is executed.                         *)
(***************************************************************************)
LifecycleInit ==
    /\ router \in {Some(r) : r \in Routers}
    /\ files \in [{"configuration", "schema"} -> FileContents]
    /\ router[1].configuration.kind # "File" => files["configuration"] = Missing
    /\ router[1].schema.kind # "File" => files["schema"] = Missing
    /\ snapshot = <<>>
    /\ sources = <<>>
    /\ signals = [future |-> "pending", handle |-> "held"]
    /\ events = <<>>
    /\ merged = "none"
    /\ feeds = 0
    /\ machine = NoMachine
    /\ requests = <<>>
    /\ handle = FederatedServerHandle
    /\ registry = <<>>
    /\ registrations = <<>>
    /\ snapshots = <<>>
    /\ reports = <<>>
    /\ aggregated = <<>>
    /\ added = 0
    /\ NoServe
    /\ NoLatency
    /\ NoForward
    /\ plan = NoPlan
    /\ variables = "absent"
    /\ pc = "none"
    /\ primary = None
    /\ fr = <<>>
    /\ dt = <<>>
    /\ primaryCh = <<>>
    /\ fetchCh = <<>>
    /\ queue = <<>>
    /\ stream = <<>>
    /\ rx = "open"
    /\ lost = {}

LifecycleNext ==
    \/ Serve /\ UNCHANGED <<besidesLifecycle, handle>>
    \/ \E s \in {"configuration", "schema"} :
          \E input \in {"none", "item", "end", "valid", "garbage"} :
             SelectSource(s, input) /\ UNCHANGED <<besidesLifecycle, handle>>
    \/ \E cause \in {"future", "sent", "dropped"} :
          SelectShutdown(cause) /\ UNCHANGED <<besidesLifecycle, handle>>
    \/ RequestEnter /\ UNCHANGED <<besidesLifecycle, handle>>
    \/ \E r \in DOMAIN requests :
          RequestComplete(r) /\ UNCHANGED <<besidesLifecycle, handle>>

LifecycleSpec == LifecycleInit /\ [][LifecycleNext]_vars

(***************************************************************************)
(* The run of a router whose handle is used: ready and state_receiver are  *)
(* called on the handle serve returned.                                    *)
(***************************************************************************)
HandleInit == LifecycleInit

HandleNext ==
    \/ Serve /\ UNCHANGED <<besidesLifecycle, handle>>
    \/ \E s \in {"configuration", "schema"} :
          \E input \in {"none", "item", "end", "valid", "garbage"} :
             SelectSource(s, input) /\ UNCHANGED <<besidesLifecycle, handle>>
    \/ \E cause \in {"future", "sent", "dropped"} :
          SelectShutdown(cause) /\ UNCHANGED <<besidesLifecycle, handle>>
    \/ StateReceiver /\ UNCHANGED besidesLifecycle
    \/ ReadyCall /\ UNCHANGED besidesLifecycle
    \/ ReadyNext /\ UNCHANGED besidesLifecycle

HandleSpec == HandleInit /\ [][HandleNext]_vars

(***************************************************************************)
(* States in which a part of the program does not run.                     *)
(***************************************************************************)
NoExecution ==
    /\ plan = NoPlan
    /\ variables = "absent"
    /\ pc = "none"
    /\ primary = None
    /\ fr = <<>>
    /\ dt = <<>>
    /\ primaryCh = <<>>
    /\ fetchCh = <<>>
    /\ queue = <<>>
    /\ stream = <<>>
    /\ rx = "open"
    /\ lost = {}

NoLifecycle ==
    /\ router = None
    /\ files = <<>>
    /\ snapshot = <<>>
    /\ sources = <<>>
    /\ signals = [future |-> "pending", handle |-> "held"]
    /\ events = <<>>
    /\ merged = "none"
    /\ feeds = 0
    /\ machine = NoMachine
    /\ requests = <<>>
    /\ handle = FederatedServerHandle

(***************************************************************************)
(* plugin::register_plugin and plugin::plugins.                            *)
(***************************************************************************)
\* The qualified names plugins are registered under, and the plugin types.
PluginNames == {"apollo.x", "apollo.y"}
PluginTypes == {"P", "Q"}

\* The calls of register_plugin and of plugins() followed in a run.
MaxRegistrations == 3
MaxSnapshots == 2

\* The factory register_plugin::<P> builds: its closures are those of P and
\* its type_id is TypeId::of::<P>().
PluginFactory(P) == [type_id |-> P]

\* An insert that keeps the factory a name already has.
InsertIfAbsent(m, name, plugin_factory) ==
    [k \in DOMAIN m \cup {name} |-> IF k \in DOMAIN m THEN m[k] ELSE plugin_factory]

\* HashMap::insert: the name is mapped to the factory, whatever it was
\* mapped to.
Insert(m, name, plugin_factory) ==
    [k \in DOMAIN m \cup {name} |-> IF k = name THEN plugin_factory ELSE m[k]]

\* HashMap::clone.
Clone(m) == m

\* register_plugin::<P>(name).
RegisterPlugin(name, P) ==
    /\ Len(registrations) < MaxRegistrations
    /\ registry' = Insert(registry, name, PluginFactory(P))
    /\ registrations' = Append(registrations, [name |-> name, type_id |-> P])
    /\ UNCHANGED snapshots

\* plugins(): the caller is given a copy of the registry.
Plugins ==
    /\ Len(snapshots) < MaxSnapshots
    /\ snapshots' = Append(snapshots,
                           [map |-> Clone(registry), at |-> Len(registrations)])
    /\ UNCHANGED <<registry, registrations>>

RegistryInit ==
    /\ registry = <<>>
    /\ registrations = <<>>
    /\ snapshots = <<>>
    /\ reports = <<>>
    /\ aggregated = <<>>
    /\ added = 0
    /\ NoServe
    /\ NoLatency
    /\ NoForward
    /\ NoExecution
    /\ NoLifecycle

RegistryNext ==
    \/ \E name \in PluginNames, P \in PluginTypes :
          RegisterPlugin(name, P) /\ UNCHANGED besidesRegistry
    \/ Plugins /\ UNCHANGED besidesRegistry

RegistrySpec == RegistryInit /\ [][RegistryNext]_vars

(***************************************************************************)
(* The aggregation of the stats reports sent to Apollo Studio.             *)
(***************************************************************************)
\* The SingleStatsReports aggregated in a run, at most.
MaxReports == 3

\* StatsContext.
StatsContext(client_name, client_version) ==
    [client_name |-> client_name, client_version |-> client_version]

\* A SingleStatsReport with one stats report key, as create_test_metric
\* builds it: under the key, the stats of one request of the client, which
\* had errors or not.
SingleStatsReport(client_name, client_version, stats_report_key, has_errors) ==
    [stats_report_key |-> stats_report_key,
     stats_with_context |->
        [context |-> StatsContext(client_name, client_version),
         has_errors |-> has_errors]]

TestMetric(client_name, client_version, stats_report_key) ==
    SingleStatsReport(client_name, client_version, stats_report_key, TRUE)

\* The reports of test_aggregation and of test_aggregation_grouping.
TestAggregation ==
    <<TestMetric("client_1", "version_1", "report_key_1"),
      TestMetric("client_1", "version_1", "report_key_1")>>

TestAggregationGrouping ==
    <<TestMetric("client_1", "version_1", "report_key_1"),
      TestMetric("client_1", "version_1", "report_key_1"),
      TestMetric("client_2", "version_1", "report_key_1"),
      TestMetric("client_1", "version_2", "report_key_1"),
      TestMetric("client_1", "version_1", "report_key_2")>>

SingleStatsReports ==
    {SingleStatsReport(n, v, k, e) :
        n \in {"client_1", "client_2"}, v \in {"version_1", "version_2"},
        k \in {"report_key_1", "report_key_2"}, e \in BOOLEAN}

\* ContextualizedStats::default(): of the query latency stats the model
\* keeps the number of requests added and requests_with_errors_count.
ContextualizedStatsDefault ==
    [context |-> StatsContext("", ""), request_count |-> 0,
     requests_with_errors_count |-> 0]

\* An addition that forgets what was added before.
ContextualizedStatsAssign(self, stats) ==
    [context |-> stats.context, request_count |-> 1,
     requests_with_errors_count |-> IF stats.has_errors THEN 1 ELSE 0]

\* impl AddAssign<SingleContextualizedStats> for ContextualizedStats, with
\* AddAssign<SingleQueryLatencyStats> for QueryLatencyStats.
ContextualizedStatsAddAssign(self, stats) ==
    [context |-> stats.context,
     request_count |-> self.request_count + 1,
     requests_with_errors_count |->
        self.requests_with_errors_count + (IF stats.has_errors THEN 1 ELSE 0)]

\* map.entry(k).or_default().
EntryOrDefault(m, k, default) == IF k \in DOMAIN m THEN m[k] ELSE default

\* The stats of a report key: the stats are added to those of their context.
StatsAddAssign(self, stats) ==
    Insert(self, stats.context,
           ContextualizedStatsAddAssign(
               EntryOrDefault(self, stats.context, ContextualizedStatsDefault),
               stats))

\* The Report: the stats of the report are added to those of their key.
ReportAddAssign(self, report) ==
    Insert(self, report.stats_report_key,
           [stats_with_context |->
               StatsAddAssign(
                   EntryOrDefault(self, report.stats_report_key,
                                  [stats_with_context |-> <<>>]).stats_with_context,
                   report.stats_with_context)])

\* Report::new adds the next report to the Report it builds.
ReportNew ==
    /\ added < Len(reports)
    /\ aggregated' = ReportAddAssign(aggregated, reports[added + 1])
    /\ added' = added + 1
    /\ UNCHANGED reports

StudioInit ==
    /\ reports \in UNION {[1..n -> SingleStatsReports] : n \in 0..MaxReports}
                   \cup {TestAggregation, TestAggregationGrouping}
    /\ aggregated = <<>>
    /\ added = 0
    /\ NoServe
    /\ NoLatency
    /\ NoForward
    /\ registry = <<>>
    /\ registrations = <<>>
    /\ snapshots = <<>>
    /\ NoExecution
    /\ NoLifecycle

StudioNext == ReportNew /\ UNCHANGED besidesStudio

StudioSpec == StudioInit /\ [][StudioNext]_vars

(***************************************************************************)
(* serve: the spawned state machine task, the state channel, and the       *)
(* handle's shutdown and poll.                                             *)
(***************************************************************************)
\* The states the state machine publishes.
States == {"Startup", "Running", "Stopped", "Errored"}

\* Results of process_events, and of the join of the spawned task: the
\* task's result, or a JoinError when the task panicked.
Ok == [ok |-> TRUE, err |-> "none"]
Err(e) == [ok |-> FALSE, err |-> e]
JoinOk(r) == [joined |-> TRUE, r |-> r]
JoinError == [joined |-> FALSE, r |-> Ok]

\* The errors process_events returns.
ProcessErrors == {"NoConfiguration", "NoSchema", "HttpServerLifecycleError"}

\* mpsc::channel::<State>(1): the buffer of the state channel.  A send is
\* complete once the queue holds no more than the buffer, or the receiver
\* is closed.
StateChannelBuffer == 1

\* The states the state machine publishes in a run, Startup included, are
\* at most MaxStates.
MaxStates == 4

\* The task is suspended in a send on the state channel.
Blocked == Len(statech.queue) > StateChannelBuffer /\ statech.receiver = "open"

\* state_listener.send(state).await: the state is queued unless the
\* receiver is closed, in which case the error is ignored.
Send(ch, state) ==
    IF ch.receiver = "open" THEN [ch EXCEPT !.queue = Append(@, state)] ELSE ch

\* Receiver::close().
Close(ch) == [ch EXCEPT !.receiver = "closed"]

\* The handle serve returns and the task it has spawned, not yet run.
ServeInit ==
    /\ task = [state |-> "none", published |-> 0, error |-> "none", joined |-> None]
    /\ statech = [queue |-> <<>>, receiver |-> "open"]
    /\ owner = [state_receiver |-> "Some", taken |-> FALSE, call |-> "none",
                shutdown_sender |-> "held", result |-> None]
    /\ NoLatency
    /\ NoForward
    /\ registry = <<>>
    /\ registrations = <<>>
    /\ snapshots = <<>>
    /\ reports = <<>>
    /\ aggregated = <<>>
    /\ added = 0
    /\ NoExecution
    /\ NoLifecycle

\* The event stream has Shutdown for the state machine.
ShutdownSignalled == owner.shutdown_sender # "held"

\* The state machine enters a state and publishes it.
Enter(state, error) ==
    /\ task.joined = None
    /\ ~Blocked
    /\ task.published < MaxStates
    /\ task' = [task EXCEPT !.state = state, !.published = @ + 1, !.error = error]
    /\ statech' = Send(statech, state)
    /\ UNCHANGED owner

\* process_events starts in Startup.
TaskStartup == task.state = "none" /\ Enter("Startup", "none")

\* Configuration and schema have come, or one of them again.
TaskRunning == task.state \in {"Startup", "Running"} /\ Enter("Running", "none")

\* The sources ended without both, a build failed, or the server did.
TaskErrored(e) == task.state \in {"Startup", "Running"} /\ Enter("Errored", e)

\* The state machine handles Shutdown.
TaskStopped ==
    /\ task.state \in {"none", "Startup", "Running"}
    /\ ShutdownSignalled
    /\ task.joined = None
    /\ ~Blocked
    /\ task' = [task EXCEPT !.state = "Stopped", !.published = @ + 1]
    /\ statech' = Send(statech, "Stopped")
    /\ UNCHANGED owner

\* process_events returns: Ok after Stopped, its error after Errored.
TaskReturn ==
    /\ task.joined = None
    /\ ~Blocked
    /\ task.state \in {"Stopped", "Errored"}
    /\ task' = [task EXCEPT !.joined =
                   Some(JoinOk(IF task.state = "Stopped" THEN Ok ELSE Err(task.error)))]
    /\ UNCHANGED <<statech, owner>>

\* The task panics while it runs.
TaskPanic ==
    /\ task.joined = None
    /\ ~Blocked
    /\ task' = [task EXCEPT !.joined = Some(JoinError)]
    /\ UNCHANGED <<statech, owner>>

\* state_receiver(): the owner takes the receiver.
OwnerTakes ==
    /\ owner.call = "none"
    /\ owner.state_receiver = "Some"
    /\ owner' = [owner EXCEPT !.state_receiver = "None", !.taken = TRUE]
    /\ UNCHANGED <<task, statech>>

\* The owner reads a state from the receiver it took.
OwnerReads ==
    /\ owner.taken
    /\ statech.receiver = "open"
    /\ statech.queue # <<>>
    /\ statech' = [statech EXCEPT !.queue = Tail(@)]
    /\ UNCHANGED <<task, owner>>

\* A handle whose state receiver is left as it is.
MaybeCloseStateReceiverLeft(h, ch) == [handle |-> h, ch |-> ch]

\* maybe_close_state_receiver: a receiver still in the handle is taken out
\* of it and closed.
MaybeCloseStateReceiver(h, ch) ==
    IF h.state_receiver = "Some"
    THEN [handle |-> [h EXCEPT !.state_receiver = "None"], ch |-> Close(ch)]
    ELSE [handle |-> h, ch |-> ch]

\* The handle is awaited: poll closes the state receiver, then polls result.
Poll ==
    /\ owner.call = "none"
    /\ LET m == MaybeCloseStateReceiver(owner, statech)
       IN  /\ owner' = [m.handle EXCEPT !.call = "await"]
           /\ statech' = m.ch
    /\ UNCHANGED task

\* shutdown(): the state receiver is closed, the shutdown sender used, and
\* result awaited.
ShutdownCall ==
    /\ owner.call \in {"none", "await"}
    /\ owner.result = None
    /\ LET m == MaybeCloseStateReceiver(owner, statech)
       IN  /\ owner' = [m.handle EXCEPT !.call = "shutdown", !.shutdown_sender = "sent"]
           /\ statech' = m.ch
    /\ UNCHANGED task

\* A result that is StartupError whatever the failure.
ResultMapStartup(r) ==
    IF r.joined /\ r.r.ok THEN Ok ELSE Err("StartupError")

\* .map(|r| match r { Ok(Ok(ok)) => Ok(ok), Ok(Err(err)) => Err(err),
\*                    Err(_err) => Err(FederatedServerError::StartupError) })
ResultMap(r) ==
    IF r.joined THEN (IF r.r.ok THEN Ok ELSE Err(r.r.err))
    ELSE Err("StartupError")

\* self.result resolves once the task has ended.
Resolve ==
    /\ owner.call \in {"await", "shutdown"}
    /\ owner.result = None
    /\ task.joined # None
    /\ owner' = [owner EXCEPT !.result = Some(ResultMap(task.joined[1]))]
    /\ UNCHANGED <<task, statech>>

ServeNext ==
    \/ TaskStartup /\ UNCHANGED besidesServe
    \/ TaskRunning /\ UNCHANGED besidesServe
    \/ \E e \in ProcessErrors : TaskErrored(e) /\ UNCHANGED besidesServe
    \/ TaskStopped /\ UNCHANGED besidesServe
    \/ TaskReturn /\ UNCHANGED besidesServe
    \/ TaskPanic /\ UNCHANGED besidesServe
    \/ OwnerTakes /\ UNCHANGED besidesServe
    \/ OwnerReads /\ UNCHANGED besidesServe
    \/ Poll /\ UNCHANGED besidesServe
    \/ ShutdownCall /\ UNCHANGED besidesServe
    \/ Resolve /\ UNCHANGED besidesServe

ServeSpec == ServeInit /\ [][ServeNext]_vars

\* The runtime schedules the task whenever it can run, the state machine
\* handles the Shutdown it is given and returns, and the result resolves.
ServeProgress ==
    /\ UNCHANGED besidesServe
    /\ TaskStartup \/ TaskStopped \/ TaskReturn \/ Resolve

FairServeSpec == ServeSpec /\ WF_vars(ServeProgress)

(***************************************************************************)
(* studio.rs: QueryLatencyStats += SingleQueryLatencyStats.  The duration  *)
(* histograms and the root error stats, which the counters do not depend   *)
(* on, are left out.                                                       *)
(***************************************************************************)
\* The SingleQueryLatencyStats added are at most MaxLatencies.
MaxLatencies == 2

SingleQueryLatencyStats(persisted_query_hit, has_errors, registered_operation, forbidden_operation, without_field_instrumentation) ==
    [persisted_query_hit |-> persisted_query_hit,
     has_errors |-> has_errors,
     registered_operation |-> registered_operation,
     forbidden_operation |-> forbidden_operation,
     without_field_instrumentation |-> without_field_instrumentation]

\* Every SingleQueryLatencyStats: persisted_query_hit is an Option<bool>.
SingleQueryLatencies ==
    {SingleQueryLatencyStats(p, e, r, f, w) :
        p \in {None, Some(TRUE), Some(FALSE)},
        e \in BOOLEAN, r \in BOOLEAN, f \in BOOLEAN, w \in BOOLEAN}

\* QueryLatencyStats::default().
QueryLatencyStatsDefault ==
    [persisted_query_hits |-> 0,
     persisted_query_misses |-> 0,
     requests_with_errors_count |-> 0,
     registered_operation_count |-> 0,
     forbidden_operation_count |-> 0,
     requests_without_field_instrumentation |-> 0]

\* `flag as u64`.
AsU64(flag) == IF flag THEN 1 ELSE 0

\* Some(true) => self.persisted_query_hits += 1
PersistedQueryHits(self, stats) ==
    IF stats.persisted_query_hit = Some(TRUE)
    THEN self.persisted_query_hits + 1 ELSE self.persisted_query_hits

\* A miss for whatever is no hit.
PersistedQueryMissesUnlessHit(self, stats) ==
    IF stats.persisted_query_hit # Some(TRUE)
    THEN self.persisted_query_misses + 1 ELSE self.persisted_query_misses

\* Some(false) => self.persisted_query_misses += 1; None => {}
PersistedQueryMisses(self, stats) ==
    IF stats.persisted_query_hit = Some(FALSE)
    THEN self.persisted_query_misses + 1 ELSE self.persisted_query_misses

\* impl AddAssign<SingleQueryLatencyStats> for QueryLatencyStats.
QueryLatencyStatsAddAssign(self, stats) ==
    [persisted_query_hits |-> PersistedQueryHits(self, stats),
     persisted_query_misses |-> PersistedQueryMisses(self, stats),
     requests_with_errors_count |->
        self.requests_with_errors_count + AsU64(stats.has_errors),
     registered_operation_count |->
        self.registered_operation_count + AsU64(stats.registered_operation),
     forbidden_operation_count |->
        self.forbidden_operation_count + AsU64(stats.forbidden_operation),
     requests_without_field_instrumentation |->
        self.requests_without_field_instrumentation
           + AsU64(stats.without_field_instrumentation)]

LatencyInit ==
    /\ latencies = <<>>
    /\ query_latency_stats = QueryLatencyStatsDefault
    /\ NoServe
    /\ NoForward
    /\ registry = <<>>
    /\ registrations = <<>>
    /\ snapshots = <<>>
    /\ reports = <<>>
    /\ aggregated = <<>>
    /\ added = 0
    /\ NoExecution
    /\ NoLifecycle

\* query_latency_stats += stats.
AddLatency(stats) ==
    /\ Len(latencies) < MaxLatencies
    /\ latencies' = Append(latencies, stats)
    /\ query_latency_stats' = QueryLatencyStatsAddAssign(query_latency_stats, stats)

LatencyNext ==
    \E stats \in SingleQueryLatencies : AddLatency(stats) /\ UNCHANGED besidesLatency

LatencySpec == LatencyInit /\ [][LatencyNext]_vars

(***************************************************************************)
(* metrics/mod.rs: ErrorsForward::merge.                                   *)
(***************************************************************************)
\* An extensions list has at most MaxExtensions elements.
MaxExtensions == 2

\* The BodyForward values a list is made of.
BodyForwards == {"x", "y"}

ErrorsForward(include_messages, extensions) ==
    [include_messages |-> include_messages, extensions |-> extensions]

\* Every ErrorsForward: extensions is an Option<Vec<BodyForward>>.
ErrorsForwards ==
    {ErrorsForward(m, e) :
        m \in BOOLEAN,
        e \in {None} \cup {Some(l) : l \in UNION {[1..n -> BodyForwards] :
                                                   n \in 0..MaxExtensions}}}

\* The elements of the other list first.
ExtendFront(extensions, extensions_to_merge) == extensions_to_merge \o extensions

\* Vec::extend: the elements are appended in order.
Extend(extensions, extensions_to_merge) == extensions \o extensions_to_merge

\* ErrorsForward::merge: self after self.merge(to_merge).
ErrorsForwardMerge(self, to_merge) ==
    [extensions |->
        IF self.extensions # None /\ to_merge.extensions # None
        THEN Some(Extend(self.extensions[1], to_merge.extensions[1]))
        ELSE IF self.extensions = None /\ to_merge.extensions # None
        THEN Some(to_merge.extensions[1])
        ELSE self.extensions,
     include_messages |-> to_merge.include_messages]

ForwardInit ==
    /\ forwards \in {[self |-> a, to_merge |-> b, merged |-> None] :
                        a \in ErrorsForwards, b \in ErrorsForwards}
    /\ NoServe
    /\ NoLatency
    /\ registry = <<>>
    /\ registrations = <<>>
    /\ snapshots = <<>>
    /\ reports = <<>>
    /\ aggregated = <<>>
    /\ added = 0
    /\ NoExecution
    /\ NoLifecycle

\* self.merge(to_merge).
Merge ==
    /\ forwards.merged = None
    /\ forwards' = [forwards EXCEPT
                       !.merged = Some(ErrorsForwardMerge(forwards.self, forwards.to_merge))]

ForwardNext == Merge /\ UNCHANGED besidesForward

ForwardSpec == ForwardInit /\ [][ForwardNext]_vars

(***************************************************************************)
(* Definitions the properties are stated with.                             *)
(***************************************************************************)
RECURSIVE SumTo(_, _)
\* The sum of f[1], ..., f[n].
SumTo(f, n) == IF n = 0 THEN 0 ELSE f[n] + SumTo(f, n - 1)

RECURSIVE CountDeferred(_)
\* The deferred nodes a plan declares, those of nested Defer nodes included.
CountDeferred(n) ==
    (IF n.kind = "Defer" THEN Len(n.deferred) ELSE 0)
    + SumTo([i \in 1..MaxArity(n) |->
                IF HasChild(n, i) THEN CountDeferred(ChildNode(n, i)) ELSE 0],
            MaxArity(n))

\* The deferred nodes of a plan that depend on some fetch.
HasDepends(d) == DeferredAt(d).depends # <<>>

\* The chunks of the stream after the first.
Later == 2..Len(stream)

\* Whether a position is that of a Sequence, ..., whose future was polled.
Entered(pos, kind) == Node(pos).kind = kind /\ fr[pos].st # "created"

\* The children of a node whose future exists.
Called(pos) == {i \in 1..MaxArity(Node(pos)) : Append(pos, i) \in DOMAIN fr}

RECURSIVE MergedUpTo(_, _)
\* The parent_value of the call at pos with the values its first k children
\* returned deep-merged into it, in declaration order.
MergedUpTo(pos, k) ==
    IF k = 0 THEN fr[pos].parent
    ELSE DeepMerge(MergedUpTo(pos, k - 1), fr[Append(pos, k)].value)

RECURSIVE ErrorsUpTo(_, _)
\* The errors the first k children of the call at pos returned, in
\* declaration order.
ErrorsUpTo(pos, k) ==
    IF k = 0 THEN <<>> ELSE ErrorsUpTo(pos, k - 1) \o fr[Append(pos, k)].errors

\* Whether p is a prefix of q.
IsPrefix(p, q) == Len(p) <= Len(q) /\ SubSeq(q, 1, Len(p)) = p

\* Two values write disjoint paths: no leaf of one lies at or under a leaf
\* of the other.
Disjoint(v, w) ==
    \A l \in Leaves(v), m \in Leaves(w) : ~IsPrefix(l[1], m[1]) /\ ~IsPrefix(m[1], l[1])

\* Whether a position lies in the inner plan of a deferred node.
InDeferred(pos) ==
    \E k \in 1..Len(pos) :
        Node(SubSeq(pos, 1, k - 1)).kind = "Defer" /\ pos[k] >= 2

(***************************************************************************)
(* C1.  Defer completeness.                                                *)
(***************************************************************************)
\* C1, as stated, for a condition variable that is absent or a boolean: when
\* the caller has read the stream to its end, the stream
\* holds one chunk more than the plan has deferred nodes; the first chunk is
\* the Response execute returned, without path; every later chunk carries
\* the declared path of a deferred node.
C1_AsStated ==
    rx = "ended" /\ variables \in {"absent", "true", "false"} =>
        /\ Len(stream) = CountDeferred(PlanAt(plan)) + 1
        /\ stream[1] = primary[1]
        /\ stream[1].path = None
        /\ \A i \in Later : \E d \in DOMAIN dt : stream[i].path = Some(DeferredAt(d).path)

\* C1, amended: when the caller has read the stream to its end, the stream
\* holds one chunk more than there are deferred nodes in the Defer nodes the
\* execution reached (a Defer in a clause of a Condition that is not taken,
\* or in a plan that is not reached, spawns none); the first chunk is the
\* Response execute returned, without path; the later chunks are the chunks
\* of those deferred nodes, one each, with the node's declared path; and
\* as long as the caller has not dropped the stream no send has failed.
C1_DeferCompleteness ==
    /\ rx # "dropped" => lost = {}
    /\ rx = "ended" =>
        /\ Len(stream) = Cardinality(DOMAIN dt) + 1
        /\ stream[1] = primary[1]
        /\ stream[1].path = None
        /\ \A d \in DOMAIN dt :
              /\ dt[d].chunk # None
              /\ dt[d].chunk[1].path = Some(DeferredAt(d).path)
              /\ Cardinality({i \in Later : stream[i] = dt[d].chunk[1]}) = 1

\* A stream read to its end that carried the chunks of three deferred nodes.
C1_Witness ==
    /\ rx = "ended"
    /\ Cardinality(DOMAIN dt) >= 3
    /\ Len(stream) >= 4

(***************************************************************************)
(* C2.  Depends gating.                                                    *)
(***************************************************************************)
DependsChannel(d, k) == fetchCh[<<Parent(d), DeferredAt(d).depends[k]>>]

\* C2, as stated: a deferred node with depends = [id] that has started its
\* inner plan, or gone on to send its chunk, has done so after the fetch
\* with that id sent a value on the id's channel.
C2_AsStated ==
    \A d \in DOMAIN dt :
        Len(DeferredAt(d).depends) = 1 /\ dt[d].st # "waiting" =>
            DependsChannel(d, 1).msgs # <<>>

\* C2, amended: a deferred node starts its inner plan, or goes on to send
\* its chunk, only once every receiver of its depends has yielded; a
\* receiver yields either the value the fetch with that id sent on the id's
\* channel, which the node then holds, or the end of the channel, which
\* comes when the Defer's primary branch has returned without that fetch
\* having sent a value (its transport failed, or it was not performed).
C2_DependsGating ==
    \A d \in DOMAIN dt :
        /\ dt[d].st # "waiting" => dt[d].pending = {}
        /\ \A k \in (1..Len(DeferredAt(d).depends)) \ dt[d].pending :
              IF DependsChannel(d, k).msgs # <<>>
              THEN Leaves(DependsChannel(d, k).msgs[1].value) \subseteq Leaves(dt[d].value)
              ELSE ~DependsChannel(d, k).open /\ fr[Parent(d)].st = "done"

\* A deferred node with depends = [id] that sent its chunk after the fetch
\* had sent its value.
C2_Witness ==
    \E d \in DOMAIN dt :
        /\ Len(DeferredAt(d).depends) = 1
        /\ dt[d].st = "done"
        /\ DependsChannel(d, 1).msgs # <<>>

(***************************************************************************)
(* C3.  The primary chunk comes first.                                     *)
(***************************************************************************)
\* C3: the first Response the stream yields is the one built from the root
\* plan's result, without path and label, and none of the Responses after
\* it is: each of them is the chunk of a deferred node, with a path.
C3_PrimaryFirst ==
    stream # <<>> =>
        /\ stream[1].data = fr[Root].value
        /\ stream[1].errors = fr[Root].errors
        /\ stream[1].subselection = fr[Root].subselection
        /\ stream[1].path = None
        /\ stream[1].label = None
        /\ \A i \in Later :
              /\ stream[i].path # None
              /\ \E d \in DOMAIN dt : dt[d].chunk = Some(stream[i])

\* A Defer followed by a further node in a Sequence whose stream has
\* yielded the primary chunk and a deferred chunk.
C3_Witness ==
    /\ plan[1] = "deferthen"
    /\ Len(stream) >= 2

(***************************************************************************)
(* C4.  Every deferred node receives the primary value.                    *)
(***************************************************************************)
\* C4: the first receive of every deferred node on the primary channel
\* yields the value its Defer returned, not an error or the default value in
\* its place, and no deferred node ends without that receive.
C4_PrimaryReceived ==
    \A d \in DOMAIN dt :
        /\ dt[d].st = "done" => dt[d].primaryReceived # <<>>
        /\ dt[d].primaryReceived # <<>> =>
              /\ fr[Parent(d)].st = "done"
              /\ dt[d].primaryReceived[1] = Some(fr[Parent(d)].value)

\* The three deferred nodes of a Defer have each received a primary value
\* that is not empty.
C4_Witness ==
    /\ plan = <<"defer", 3>>
    /\ DOMAIN dt # {}
    /\ \A d \in DOMAIN dt :
          /\ dt[d].primaryReceived # <<>>
          /\ dt[d].primaryReceived[1] # Some(Null)

(***************************************************************************)
(* C5.  The stream ends, and not too early.                                *)
(***************************************************************************)
\* C5: the receiver observes the end of the stream only when execute has
\* returned, every deferred node has sent its chunk and the queue is empty;
\* and, the caller reading on, the stream does end.
C5_StreamTerminates ==
    /\ [](rx = "ended" =>
            /\ pc = "returned"
            /\ queue = <<>>
            /\ \A d \in DOMAIN dt : dt[d].st = "done" /\ dt[d].chunk # None)
    /\ <>(rx # "open")

\* The stream of a plan with deferred nodes has ended.
C5_Witness ==
    /\ rx = "ended"
    /\ Cardinality(DOMAIN dt) >= 2

(***************************************************************************)
(* C6.  Sequence.                                                          *)
(***************************************************************************)
\* C6: a Sequence calls its children one at a time in declaration order,
\* each with the same current_dir and with, as parent, the Sequence's
\* parent_value deep-merged with the values of the children before it; its
\* value is that merge over the children that have returned and its errors
\* are their errors in declaration order; it returns when the last child has.
C6_Sequence ==
    \A pos \in DOMAIN fr :
        Entered(pos, "Sequence") =>
            LET f == fr[pos]
                n == Len(Node(pos).nodes)
            IN  /\ f.value = MergedUpTo(pos, f.next - 1)
                /\ f.errors = ErrorsUpTo(pos, f.next - 1)
                /\ Called(pos) = 1..(IF f.next <= n THEN f.next ELSE n)
                /\ \A j \in Called(pos) :
                      /\ fr[Append(pos, j)].parent = MergedUpTo(pos, j - 1)
                      /\ fr[Append(pos, j)].dir = f.dir
                      /\ j < f.next => fr[Append(pos, j)].st = "done"
                /\ f.st = "done" <=> f.next > n

\* A Sequence of three fetches has returned, the first having answered and
\* the second having reported an error.
C6_Witness ==
    /\ plan = <<"sequence", 3>>
    /\ Root \in DOMAIN fr
    /\ fr[Root].st = "done"
    /\ ~fr[<<1>>].failed
    /\ Len(fr[Root].errors) = 1

ReturnedEmpty(pos) ==
    /\ fr[pos].st = "done"
    /\ fr[pos].value = Null
    /\ fr[pos].subselection = None
    /\ fr[pos].errors = <<>>

\* C8, as stated: if_clause is executed exactly when the variable is true,
\* or absent, and if_clause is present; else_clause exactly when the
\* variable is false and else_clause is present; otherwise neither is and
\* the Condition returns (empty value, no subselection, no errors).
C8_AsStated ==
    \A pos \in DOMAIN fr :
        Entered(pos, "Condition") =>
            /\ 1 \in Called(pos) <=>
                  variables \in {"absent", "true"} /\ Node(pos).ifClause # None
            /\ 2 \in Called(pos) <=>
                  variables = "false" /\ Node(pos).elseClause # None
            /\ Called(pos) = {} => ReturnedEmpty(pos)

\* C8, amended: if_clause is executed exactly when the variable is true, or
\* absent, and if_clause is present; else_clause exactly when the variable
\* has any other value, false or not a boolean, and else_clause is present;
\* when the clause so chosen is absent neither is executed and the Condition
\* returns (empty value, no subselection, no errors); never both.
C8_Condition ==
    \A pos \in DOMAIN fr :
        Entered(pos, "Condition") =>
            /\ 1 \in Called(pos) <=>
                  variables \in {"absent", "true"} /\ Node(pos).ifClause # None
            /\ 2 \in Called(pos) <=>
                  variables \notin {"absent", "true"} /\ Node(pos).elseClause # None
            /\ Called(pos) # {1, 2}
            /\ Called(pos) = {} => ReturnedEmpty(pos)

\* With both clauses present and the variable false, the else clause alone
\* has been executed.
C8_Witness ==
    /\ plan = <<"condition", 3>>
    /\ variables = "false"
    /\ Root \in DOMAIN fr
    /\ fr[Root].st = "done"
    /\ Called(Root) = {2}

(***************************************************************************)
(* C9.  A Fetch whose transport fails.                                     *)
(***************************************************************************)
\* C9: a call whose fetch failed at the transport layer is a Fetch that has
\* returned, as any other call does, the default value and exactly one
\* error, whose path is the call's current_dir.
C9_FetchFailure ==
    \A pos \in DOMAIN fr :
        fr[pos].failed =>
            /\ Node(pos).kind = "Fetch"
            /\ fr[pos].st = "done"
            /\ fr[pos].value = Null
            /\ Len(fr[pos].errors) = 1
            /\ fr[pos].errors[1].path = Some(fr[pos].dir)

\* A fetch under a Flatten has failed.
C9_Witness ==
    \E pos \in DOMAIN fr : fr[pos].failed /\ fr[pos].dir # <<>>

(***************************************************************************)
(* C10.  Errors never abort sibling execution.                             *)
(***************************************************************************)
\* The errors the fetches outside the deferred nodes' inner plans returned.
PrimaryFetchErrors ==
    UNION {Range(fr[p].errors) :
              p \in {q \in DOMAIN fr : Node(q).kind = "Fetch" /\ ~InDeferred(q)}}

\* C10: whatever errors its children return, a Sequence or a Parallel that
\* has returned has executed all its nodes, a Defer its primary node and the
\* futures of all its deferred nodes, a Condition the clause it chose; the
\* Response execute returns carries every error the fetches of the primary
\* plan returned; and execute does return.
C10_ErrorsDoNotAbort ==
    /\ [](\A pos \in DOMAIN fr :
            fr[pos].st = "done" =>
                LET n == Node(pos)
                    done(i) == /\ Append(pos, i) \in DOMAIN fr
                               /\ fr[Append(pos, i)].st = "done"
                IN  /\ n.kind \in {"Sequence", "Parallel"} =>
                          \A i \in 1..Len(n.nodes) : done(i)
                    /\ n.kind = "Defer" =>
                          /\ n.nodes # None => done(1)
                          /\ \A j \in 1..Len(n.deferred) : Append(pos, j + 1) \in DOMAIN dt
                    /\ n.kind = "Condition" /\ ConditionClause(n) # 0 =>
                          done(ConditionClause(n)))
    /\ [](pc = "returned" =>
            /\ Range(primary[1].errors) = PrimaryFetchErrors
            /\ Len(primary[1].errors) = Cardinality(PrimaryFetchErrors))
    /\ <>(pc = "returned")

\* execute has returned the errors of a Sequence whose first fetch failed
\* and whose later fetches were executed all the same.
C10_Witness ==
    /\ plan = <<"sequence", 3>>
    /\ pc = "returned"
    /\ fr[<<1>>].failed
    /\ fr[<<3>>].st = "done"
    /\ Len(primary[1].errors) = 2

(***************************************************************************)
(* Definitions the lifecycle properties are stated with.                   *)
(***************************************************************************)
Sources == {"configuration", "schema"}
IsConfigurationEvent(e) == e.type \in {"UpdateConfiguration", "NoMoreConfiguration"}
IsSchemaEvent(e) == e.type \in {"UpdateSchema", "NoMoreSchema"}

\* The events of the unified stream that come from a source.
EventsOf(s) ==
    IF s = "configuration" THEN SelectSeq(events, IsConfigurationEvent)
    ELSE SelectSeq(events, IsSchemaEvent)

\* The source's stream has ended: its marker has been yielded.
Exhausted(s) == ~sources[s].marker

\* The kind the router was built with for a source.
KindOf(s) == IF s = "configuration" THEN router[1].configuration ELSE router[1].schema

\* A shutdown stream has yielded its Shutdown.
ShutdownYielded == signals.future = "yielded" \/ signals.handle # "held"

(***************************************************************************)
(* C11.  The unified event stream ends with its only Shutdown.             *)
(***************************************************************************)
\* C11: a Shutdown in the unified event stream is its last item; the stream
\* has ended exactly when it has yielded a Shutdown, which it does as soon
\* as a shutdown source yields one, so that no UpdateConfiguration,
\* UpdateSchema, NoMoreConfiguration or NoMoreSchema follows, whatever the
\* sources still have ready.
C11_ShutdownLast ==
    /\ \A i \in 1..Len(events) : events[i] = Shutdown => i = Len(events)
    /\ merged = "ended" <=> (events # <<>> /\ events[Len(events)] = Shutdown)
    /\ merged # "none" => (ShutdownYielded <=> merged = "ended")

\* The stream ended after events of both sources, while a source still had
\* something ready.
C11_Witness ==
    /\ merged = "ended"
    /\ EventsOf("configuration") # <<>>
    /\ EventsOf("schema") # <<>>
    /\ \E s \in Sources : SourceReady(sources[s])

(***************************************************************************)
(* C12.  A source stream is its updates, then its marker.                  *)
(***************************************************************************)
\* C12: the events of the configuration source are UpdateConfiguration
\* events followed, once the source has ended and not before, by one
\* NoMoreConfiguration, which is the last of them; likewise for the schema
\* source with UpdateSchema and NoMoreSchema; and the stream of a source
\* built from a valid file that is not watched is, once it has ended, one
\* update followed by the marker.
C12_SourceStreams ==
    merged # "none" =>
        \A s \in Sources :
            LET es == EventsOf(s) IN
            /\ \A i \in 1..Len(es) :
                  IF es[i] = MarkerOf(s) THEN i = Len(es) /\ Exhausted(s)
                  ELSE es[i].type = UpdateOf(s, 0).type
            /\ Exhausted(s) => es # <<>> /\ es[Len(es)] = MarkerOf(s)
            /\ (/\ KindOf(s).kind = "File" /\ ~KindOf(s).watch
                /\ snapshot[s] = Valid(1) /\ Exhausted(s))
                  => es = <<UpdateOf(s, 1), MarkerOf(s)>>

\* The configuration comes from a valid file that is not watched, the schema
\* from a user's stream that gave two schemas; both streams have ended.
C12_Witness ==
    /\ merged # "none"
    /\ router[1].configuration = ConfigurationFile(FALSE)
    /\ router[1].schema = SchemaStream
    /\ Exhausted("configuration") /\ Exhausted("schema")
    /\ Len(EventsOf("configuration")) = 2
    /\ Len(EventsOf("schema")) = 3

(***************************************************************************)
(* C13.  A file that cannot be read when the stream is created.            *)
(***************************************************************************)
\* C13: when the configuration file is missing or does not parse at the
\* time its stream is created, watched or not, the stream never yields an
\* UpdateConfiguration: it has nothing but its NoMoreConfiguration to yield,
\* and yields it first; likewise for a schema file and NoMoreSchema.
C13_UnreadableFile ==
    merged # "none" =>
        \A s \in Sources :
            KindOf(s).kind = "File" /\ snapshot[s] \in {Missing, Garbage} =>
                /\ sources[s].items = <<>> /\ sources[s].closed
                /\ IF Exhausted(s) THEN EventsOf(s) = <<MarkerOf(s)>>
                   ELSE EventsOf(s) = <<>>

\* A watched configuration file that did not parse and a watched schema file
\* that was missing: each stream has yielded its marker and nothing else,
\* and the unified stream goes on.
C13_Witness ==
    /\ merged = "open"
    /\ router[1].configuration = ConfigurationFile(TRUE)
    /\ router[1].schema = SchemaFile(TRUE)
    /\ snapshot["configuration"] = Garbage
    /\ snapshot["schema"] = Missing
    /\ events = <<NoMoreSchema, NoMoreConfiguration>>

(***************************************************************************)
(* C14.  A watched configuration file that cannot be read after a change.  *)
(***************************************************************************)
\* C14: while the configuration file is watched, a change to a content that
\* cannot be parsed yields no event and leaves the unified stream and the
\* configuration stream open; every UpdateConfiguration carries a content
\* that was read; and when the watcher has nothing left to look at and the
\* file is valid, the last configuration event is the update with the
\* file's content, also after a change that failed.
C14_WatchIgnoresFailure ==
    /\ [](merged # "none" /\ sources["configuration"].body = "watch" =>
            LET x == sources["configuration"]
                es == EventsOf("configuration")
            IN  /\ ~x.closed /\ x.marker
                /\ \A i \in 1..Len(es) :
                      es[i].type = "UpdateConfiguration" /\ es[i].v >= 1
                /\ x.items = <<>> /\ files["configuration"].valid =>
                      /\ es # <<>>
                      /\ es[Len(es)] = UpdateConfiguration(files["configuration"].v))
    /\ [][(/\ merged = "open"
           /\ sources["configuration"].body = "watch"
           /\ files["configuration"] # Garbage
           /\ files'["configuration"] = Garbage)
             => events' = events /\ merged' = "open"]_vars

\* A watched configuration file was rewritten with garbage, which gave no
\* event, and then with a valid content, which gave the second update.
C14_Witness ==
    /\ merged = "open"
    /\ sources["configuration"].body = "watch"
    /\ EventsOf("configuration") = <<UpdateConfiguration(1), UpdateConfiguration(3)>>
    /\ files["configuration"] = Valid(3)

(***************************************************************************)
(* C15.  Startup is left for Running when both inputs are there.           *)
(***************************************************************************)
\* The event the state machine has just been given.
Handled == events'[Len(events')]

\* C15: whenever the machine runs, or has published Running, it holds a
\* configuration and a schema and serves with the factory built from them;
\* and an UpdateConfiguration (UpdateSchema) handled in Startup is stored,
\* and takes the machine to Running exactly when a schema (a configuration)
\* was already stored, and to no other state.
C15_StartupToRunning ==
    /\ []((\/ machine.state = "Running"
           \/ \E i \in 1..Len(machine.published) :
                 machine.published[i].state = "Running")
            => /\ machine.configuration # None
               /\ machine.schema # None
               /\ machine.factory # None)
    /\ [](machine.state = "Running" =>
            machine.factory = Some(Factory(machine.configuration[1], machine.schema[1])))
    /\ [][machine.state = "Startup" /\ events' # events =>
            /\ Handled.type = "UpdateConfiguration" =>
                  /\ machine'.configuration = Some(Handled.v)
                  /\ machine'.state = (IF machine.schema # None THEN "Running" ELSE "Startup")
            /\ Handled.type = "UpdateSchema" =>
                  /\ machine'.schema = Some(Handled.v)
                  /\ machine'.state = (IF machine.configuration # None THEN "Running" ELSE "Startup")
            /\ machine'.state = "Running" => Handled.type \in {"UpdateConfiguration", "UpdateSchema"}]_vars

\* Running was entered on the configuration, the schema having come first.
C15_Witness ==
    /\ machine.state = "Running"
    /\ events = <<UpdateSchema(1), NoMoreSchema, UpdateConfiguration(1)>>
    /\ machine.published = <<[state |-> "Startup", schema |-> 0],
                             [state |-> "Running", schema |-> 1]>>

(***************************************************************************)
(* C16.  Startup and the end of the sources.                               *)
(***************************************************************************)
\* C16: a NoMoreConfiguration or NoMoreSchema handled in Startup leaves the
\* machine in Startup when the other source has not ended, and takes it to
\* Errored when it has; so that in Startup at most one source has ended,
\* and a machine that failed without having run has seen both sources end
\* and lacks the configuration or the schema.
C16_StartupNoMore ==
    /\ [](machine.state = "Startup" => machine.ended # Sources)
    /\ []((/\ machine.state = "Errored"
           /\ \A i \in 1..Len(machine.published) : machine.published[i].state # "Running")
            => /\ machine.ended = Sources
               /\ machine.configuration = None \/ machine.schema = None)
    /\ [][machine.state = "Startup" /\ events' # events =>
            /\ Handled.type = "NoMoreConfiguration" =>
                  machine'.state = (IF "schema" \in machine.ended
                                    THEN "Errored" ELSE "Startup")
            /\ Handled.type = "NoMoreSchema" =>
                  machine'.state = (IF "configuration" \in machine.ended
                                    THEN "Errored" ELSE "Startup")]_vars

\* The configuration file was missing: the machine stayed in Startup on
\* NoMoreConfiguration, stored the schema, and failed when the schema source
\* ended too.
C16_Witness ==
    /\ machine.state = "Errored"
    /\ events = <<NoMoreConfiguration, UpdateSchema(1), NoMoreSchema>>
    /\ machine.published = <<[state |-> "Startup", schema |-> 0],
                             [state |-> "Errored", schema |-> 0]>>

(***************************************************************************)
(* C17.  Running.                                                          *)
(***************************************************************************)
\* C17: an UpdateConfiguration handled in Running either leaves the machine
\* in Running, serving with the factory built from the new configuration
\* and the stored schema, or, the build having failed, takes it to Errored;
\* an UpdateSchema leaves it in Running, serving with the factory built from
\* the stored configuration and the new schema; NoMoreConfiguration and
\* NoMoreSchema change nothing; Shutdown takes it to Stopped.
C17_Running ==
    [][machine.state = "Running" /\ events' # events =>
        /\ Handled.type = "UpdateConfiguration" =>
              \/ /\ machine'.state = "Running"
                 /\ machine'.factory = Some(Factory(Handled.v, machine.schema[1]))
              \/ machine'.state = "Errored"
        /\ Handled.type = "UpdateSchema" =>
              /\ machine'.state = "Running"
              /\ machine'.factory = Some(Factory(machine.configuration[1], Handled.v))
        /\ Handled.type \in {"NoMoreConfiguration", "NoMoreSchema"} =>
              machine' = machine
        /\ Handled.type = "Shutdown" => machine'.state = "Stopped"]_vars

\* The machine runs with its second factory: a second configuration was
\* swapped in and the end of the configurations was then ignored.
C17_Witness ==
    /\ machine.state = "Running"
    /\ machine.factory = Some(Factory(2, 1))
    /\ Len(machine.published) = 3
    /\ events # <<>>
    /\ events[Len(events)] = NoMoreConfiguration

(***************************************************************************)
(* C18.  Stopped and Errored are terminal.                                 *)
(***************************************************************************)
\* C18: no event changes a machine that is Stopped or Errored; and a
\* Shutdown handled in Startup takes the machine to Stopped, which a machine
\* that never published Running can only have reached that way.
C18_Terminal ==
    /\ [][machine.state \in {"Stopped", "Errored"} => machine' = machine]_vars
    /\ [][machine.state = "Startup" /\ events' # events /\ Handled = Shutdown =>
            /\ machine'.state = "Stopped"
            /\ \A i \in 1..Len(machine'.published) :
                  machine'.published[i].state # "Running"]_vars

\* The machine failed in Startup and has ignored the Shutdown that followed.
C18_Witness ==
    /\ machine.state = "Errored"
    /\ merged = "ended"
    /\ machine.published = <<[state |-> "Startup", schema |-> 0],
                             [state |-> "Errored", schema |-> 0]>>

(***************************************************************************)
(* C19.  Hot swap and the requests in flight.                              *)
(***************************************************************************)
\* C19: a request completes with the service that was current when it
\* entered, whatever was swapped in since; and a request that enters takes
\* the service current at that moment, the one of the last Running
\* published.
C19_HotSwapContinuity ==
    /\ [](\A r \in 1..Len(requests) :
            /\ requests[r].service # None
            /\ machine.published[requests[r].epoch] =
                  [state |-> "Running", schema |-> requests[r].service[1].schema]
            /\ requests[r].st = "done" => requests[r].used = requests[r].service)
    /\ [][Len(requests') > Len(requests) =>
            /\ requests'[Len(requests')].service = machine.factory
            /\ requests'[Len(requests')].epoch = Len(machine.published)]_vars

\* A request that entered under the first factory completed with it after
\* the second was swapped in.
C19_Witness ==
    /\ machine.state = "Running"
    /\ \E r \in 1..Len(requests) :
          /\ requests[r].st = "done"
          /\ requests[r].used # machine.factory
          /\ requests[r].epoch < Len(machine.published)

(***************************************************************************)
(* C20.  Dropping the response stream.                                     *)
(***************************************************************************)
\* C20: once the caller has dropped the response stream, no fetch that had
\* not been performed is performed: the deferred nodes' tasks, the only ones
\* left of the request by then, are stopped before their next fetch.
C20_DropCancels ==
    [][rx = "dropped" =>
        \A pos \in DOMAIN fr :
            Node(pos).kind = "Fetch" /\ fr[pos].st = "created" =>
                fr'[pos].st = "created"]_vars

(***************************************************************************)
(* C21.  The Response of a deferred node.                                  *)
(***************************************************************************)
\* C21: a deferred node that has finished, with or without inner node, has
\* sent one Response, queued for the caller unless the caller had dropped
\* the stream, that carries the node's declared path and label and leaves
\* has_next unset, and holds its clone of the sender no longer; a node that
\* has not finished has sent none.
C21_DeferredResponse ==
    \A d \in DOMAIN dt :
        IF dt[d].st = "done"
        THEN /\ dt[d].chunk # None
             /\ dt[d].chunk[1].path = Some(DeferredAt(d).path)
             /\ dt[d].chunk[1].label = DeferredAt(d).label
             /\ dt[d].chunk[1].has_next = None
             /\ d \in lost \/ dt[d].chunk[1] \in Range(stream \o queue)
             /\ ~DeferredHoldsSender(d)
        ELSE dt[d].chunk = None /\ DeferredHoldsSender(d)

\* A deferred node with an inner node and one without have both finished;
\* the second is labelled.
C21_Witness ==
    \E d, e \in DOMAIN dt :
        /\ dt[d].st = "done" /\ DeferredAt(d).node # None
        /\ dt[e].st = "done" /\ DeferredAt(e).node = None
        /\ DeferredAt(e).label # None
        /\ rx = "open"

\* C21 as stated: the Response of a deferred node that has finished has
\* has_next set to true.
C21_AsStated ==
    \A d \in DOMAIN dt :
        dt[d].st = "done" =>
            /\ dt[d].chunk # None
            /\ dt[d].chunk[1].path = Some(DeferredAt(d).path)
            /\ dt[d].chunk[1].label = DeferredAt(d).label
            /\ dt[d].chunk[1].has_next = Some(TRUE)
            /\ ~DeferredHoldsSender(d)

(***************************************************************************)
(* C22.  The errors of a deferred chunk.                                   *)
(***************************************************************************)
\* C22: the Response of a deferred node that has finished carries every
\* error the node received on its depends channels, and the errors of its
\* inner node when it has one.
C22_DependsErrorsKept ==
    \A d \in DOMAIN dt :
        dt[d].st = "done" =>
            /\ Range(dt[d].errors) \subseteq Range(dt[d].chunk[1].errors)
            /\ DeferredAt(d).node # None =>
                  Range(fr[d].errors) \subseteq Range(dt[d].chunk[1].errors)

(***************************************************************************)
(* C23, C24.  The subselection of a Sequence.                              *)
(***************************************************************************)
\* The Sequence calls that have returned.
SequencesDone ==
    {pos \in DOMAIN fr : Node(pos).kind = "Sequence" /\ fr[pos].st = "done"}

\* The subselection the i-th child of the Sequence at pos returned.
ChildSubselection(pos, i) == fr[Append(pos, i)].subselection

\* C23: a Sequence that has returned has returned the subselection of its
\* last child, and none when it has no child.
C23_SequenceLastSubselection ==
    \A pos \in SequencesDone :
        LET n == Len(Node(pos).nodes) IN
        fr[pos].subselection = (IF n = 0 THEN None ELSE ChildSubselection(pos, n))

\* A Sequence has returned no subselection, that of its last child, after
\* an earlier child returned one.
C23_Witness ==
    \E pos \in SequencesDone :
        /\ \E i \in 1..Len(Node(pos).nodes) : ChildSubselection(pos, i) # None
        /\ ChildSubselection(pos, Len(Node(pos).nodes)) = None
        /\ fr[pos].subselection = None

\* C24: a Sequence that has returned has returned the last subselection any
\* of its children returned: the children after that one returned none.
C24_SequenceLastNonEmpty ==
    \A pos \in SequencesDone :
        \A i \in 1..Len(Node(pos).nodes) :
            (/\ ChildSubselection(pos, i) # None
             /\ \A j \in (i + 1)..Len(Node(pos).nodes) :
                   ChildSubselection(pos, j) = None)
                => fr[pos].subselection = ChildSubselection(pos, i)

(***************************************************************************)
(* C25.  The subselection of a deferred chunk.                             *)
(***************************************************************************)
\* C25: the Response of a deferred node that has finished carries the
\* subselection the node declares when it declares one; when it declares
\* none, the one its inner node returned, and none without inner node.
C25_DeferredSubselection ==
    \A d \in DOMAIN dt :
        dt[d].st = "done" =>
            dt[d].chunk[1].subselection =
                (IF DeferredAt(d).subselection # None
                 THEN DeferredAt(d).subselection
                 ELSE IF DeferredAt(d).node # None
                      THEN fr[d].subselection ELSE None)

\* A deferred node that declares a subselection has finished with an inner
\* node that returned another one.
C25_Witness ==
    \E d \in DOMAIN dt :
        /\ dt[d].st = "done"
        /\ DeferredAt(d).subselection # None
        /\ DeferredAt(d).node # None
        /\ fr[d].subselection # None
        /\ fr[d].subselection # DeferredAt(d).subselection
        /\ dt[d].chunk[1].subselection = DeferredAt(d).subselection

(***************************************************************************)
(* C26.  The primary value of a Defer.                                     *)
(***************************************************************************)
\* C26: a Defer, with or without primary node, sends nothing on its primary
\* channel before its primary node has returned; once it has returned
\* itself, it has sent one value, the value it returns (the channel keeps
\* it when the Defer has deferred nodes to receive it), and it has returned
\* the subselection its primary declares.
C26_DeferPrimary ==
    \A pos \in DOMAIN fr :
        Node(pos).kind = "Defer" =>
            /\ fr[pos].st = "running" =>
                  /\ Node(pos).nodes # None
                  /\ primaryCh[pos].msgs = <<>>
            /\ fr[pos].st = "done" =>
                  /\ Node(pos).nodes # None => fr[Append(pos, 1)].st = "done"
                  /\ primaryCh[pos].msgs =
                        (IF Node(pos).deferred = <<>> THEN <<>> ELSE <<fr[pos].value>>)
                  /\ ~primaryCh[pos].open
                  /\ fr[pos].subselection = Node(pos).primarySubselection

\* A Defer with deferred nodes has returned its primary's subselection and
\* sent its value after a primary node that returned another subselection.
C26_Witness ==
    \E pos \in DOMAIN fr :
        /\ Node(pos).kind = "Defer"
        /\ fr[pos].st = "done"
        /\ Node(pos).nodes # None
        /\ Node(pos).deferred # <<>>
        /\ fr[Append(pos, 1)].subselection # None
        /\ fr[Append(pos, 1)].subselection # fr[pos].subselection
        /\ primaryCh[pos].msgs = <<fr[pos].value>>

(***************************************************************************)
(* C30.  Flatten and current_dir.                                          *)
(***************************************************************************)
\* What a Flatten does: its child is executed at current_dir joined with
\* the Flatten's path, with the Flatten's own parent_value, and what the
\* child returns is what the Flatten returns.
FlattenPassesThrough ==
    \A pos \in DOMAIN fr :
        (Node(pos).kind = "Flatten" /\ Append(pos, 1) \in DOMAIN fr) =>
            LET c == fr[Append(pos, 1)] IN
            /\ c.dir = Join(fr[pos].dir, Node(pos).path)
            /\ c.parent = fr[pos].parent
            /\ fr[pos].st = "done" =>
                  /\ c.st = "done"
                  /\ fr[pos].value = c.value
                  /\ fr[pos].errors = c.errors
                  /\ fr[pos].subselection = c.subselection

RunningAmong(n) == \E j \in 1..n : machine.published[j].state = "Running"

\* C27: of the calls made of ready and state_receiver, the first is given
\* the receiver and every later one panics; a call of ready that has
\* returned an address has returned that of the first Running published, and
\* one that has returned nothing has done so after the state machine
\* dropped its listener without having published Running; while it waits it
\* has read no Running.
C27_StateReceiverOnce ==
    /\ \A i \in 1..Len(handle.calls) :
          handle.calls[i].outcome = (IF i = 1 THEN "receiver" ELSE "panic")
    /\ handle.state_receiver = "Some" <=> handle.calls = <<>>
    /\ handle.ready = "waiting" => ~RunningAmong(handle.seen)
    /\ handle.ready = "returned" =>
          IF handle.address # None
          THEN /\ handle.address = Some(handle.seen)
               /\ machine.published[handle.seen].state = "Running"
               /\ ~RunningAmong(handle.seen - 1)
          ELSE /\ StateListenerDropped
               /\ ~RunningAmong(Len(machine.published))

\* ready was given the receiver and has returned the address of the first
\* Running, the second state published; a state was published since, and a
\* call of state_receiver has panicked.
C27_Witness ==
    /\ Len(handle.calls) = 2
    /\ handle.calls[1] = [op |-> "ready", outcome |-> "receiver"]
    /\ handle.calls[2] = [op |-> "state_receiver", outcome |-> "panic"]
    /\ handle.ready = "returned"
    /\ handle.address = Some(2)
    /\ Len(machine.published) > 2
    /\ signals.handle = "held"

(***************************************************************************)
(* C28.  plugins() returns a snapshot.                                     *)
(***************************************************************************)
\* The names registered by the first n calls of register_plugin.
NamesRegistered(n) == {registrations[j].name : j \in 1..n}

\* The last of the first n registrations made under the name.
LastRegistration(name, n) ==
    LET js == {j \in 1..n : registrations[j].name = name}
    IN  registrations[CHOOSE j \in js : \A k \in js : k <= j]

\* C28: a mapping plugins() returned holds exactly the names registered
\* before the call, each with the factory of the last registration made
\* under it before the call; and no step, a registration least of all,
\* changes a mapping already returned.
C28_PluginsSnapshot ==
    /\ [](\A i \in 1..Len(snapshots) :
            /\ DOMAIN snapshots[i].map = NamesRegistered(snapshots[i].at)
            /\ \A name \in NamesRegistered(snapshots[i].at) :
                  snapshots[i].map[name] =
                     PluginFactory(LastRegistration(name, snapshots[i].at).type_id))
    /\ [][\A i \in 1..Len(snapshots) : snapshots'[i] = snapshots[i]]_vars

\* A mapping was returned after a name was registered twice, with two
\* plugin types; a registration made since has changed the registry and not
\* the mapping.
C28_Witness ==
    \E i \in 1..Len(snapshots) :
        /\ snapshots[i].at = 2
        /\ registrations[1].name = registrations[2].name
        /\ registrations[1].type_id # registrations[2].type_id
        /\ Len(registrations) = 3
        /\ snapshots[i].map # registry

(***************************************************************************)
(* C29.  The aggregated report.                                            *)
(***************************************************************************)
\* The reports added so far that have the key, and those of them that have
\* the context.
AddedWith(key) ==
    {i \in 1..added : reports[i].stats_report_key = key}
AddedIn(key, context) ==
    {i \in AddedWith(key) : reports[i].stats_with_context.context = context}

PrimaryValueOf(d, i) == UnwrapOr(dt[d].primaryReceived[i], Null)

\* The value sent on the channel of the one fetch id d depends on, the
\* empty value when the channel was closed without one.
DependsValueOf(d) ==
    LET ch == fetchCh[<<Parent(d), DeferredAt(d).depends[1]>>]
    IN  IF ch.msgs = <<>> THEN Null ELSE ch.msgs[1].value

\* C31: the inner node of a deferred node is executed at the empty path,
\* with for parent the Defer's parent_value merged with what the node
\* waited for: the primary value when depends is empty, the value of the
\* fetch it depends on otherwise.  The data of the chunk is what the inner
\* node returned when depends is empty; otherwise the primary value is
\* merged into it, the primary value winning where both have a leaf.
C31_DeferredInner ==
    \A d \in DOMAIN dt \cap DOMAIN fr :
        /\ fr[d].dir = <<>>
        /\ DeferredAt(d).depends = <<>> =>
              fr[d].parent = DeepMerge(fr[Parent(d)].parent, PrimaryValueOf(d, 1))
        /\ Len(DeferredAt(d).depends) = 1 =>
              fr[d].parent = DeepMerge(fr[Parent(d)].parent, DependsValueOf(d))
        /\ dt[d].st = "done" =>
              dt[d].chunk[1].data =
                 (IF DeferredAt(d).depends = <<>> THEN fr[d].value
                  ELSE DeepMerge(fr[d].value, PrimaryValueOf(d, 1)))

\* A deferred node that depends on a fetch has finished: its inner node
\* returned 6 for "a", the primary value has 1, and the chunk has 1.
C31_Witness ==
    \E d \in DOMAIN dt \cap DOMAIN fr :
        /\ dt[d].st = "done"
        /\ DeferredAt(d).depends # <<>>
        /\ fr[d].parent = One("a", 1)
        /\ fr[d].value = Obj(<<KV("a", Num(6)), KV("b", Num(6))>>)
        /\ PrimaryValueOf(d, 1) = One("a", 1)
        /\ dt[d].chunk[1].data = Obj(<<KV("a", Num(1)), KV("b", Num(6))>>)

(***************************************************************************)
(* C32.  A chunk is sent after the primary value.                          *)
(***************************************************************************)
\* C32: a deferred node that has sent its chunk has received, before it
\* sent, the primary value from the primary channel of its own Defer, which
\* has finished its primary branch and returned that value; this holds
\* whether depends is empty or not and whether the node has an inner node
\* or not.
C32_ChunkAfterPrimary ==
    \A d \in DOMAIN dt :
        dt[d].chunk # None =>
            /\ fr[Parent(d)].st = "done"
            /\ primaryCh[Parent(d)].msgs = <<fr[Parent(d)].value>>
            /\ dt[d].primaryReceived # <<>>
            /\ dt[d].primaryReceived[1] = Some(fr[Parent(d)].value)

\* The deferred nodes of a Defer with a primary node have all sent their
\* chunk: one with depends empty, one with depends and an inner node, one
\* without inner node.
C32_Witness ==
    \E pos \in DOMAIN primaryCh :
        /\ Node(pos).nodes # None
        /\ \A d \in DOMAIN dt : Parent(d) = pos => dt[d].chunk # None
        /\ \E d \in DOMAIN dt :
              Parent(d) = pos /\ DeferredAt(d).depends = <<>>
        /\ \E d \in DOMAIN dt :
              /\ Parent(d) = pos
              /\ DeferredAt(d).depends # <<>>
              /\ DeferredAt(d).node # None
        /\ \E d \in DOMAIN dt : Parent(d) = pos /\ DeferredAt(d).node = None

(***************************************************************************)
(* C33.  A deferred node does not wait forever.                            *)
(***************************************************************************)
\* The deferred node d depends on a fetch that sent nothing.
DependsUnmet(d) ==
    \E k \in 1..Len(DeferredAt(d).depends) : DependsChannel(d, k).msgs = <<>>

\* C33: once the Defer has returned, a channel of its deferred_fetches on
\* which nothing was sent is closed, its sender dropped; a deferred node
\* that has left its wait for such a channel has received no value from it;
\* and every deferred node eventually has sent its chunk, after its inner
\* node, if it has one, has returned.
C33_NeverWaitsForever ==
    /\ [](\A d \in DOMAIN dt : \A k \in 1..Len(DeferredAt(d).depends) :
            DependsChannel(d, k).msgs = <<>> =>
               /\ fr[Parent(d)].st = "done" => ~DependsChannel(d, k).open
               /\ k \notin dt[d].pending =>
                     /\ fr[Parent(d)].st = "done"
                     /\ dt[d].value = fr[Parent(d)].parent \/ Len(DeferredAt(d).depends) > 1)
    /\ <>[](/\ pc = "returned"
            /\ \A d \in DOMAIN dt :
                  /\ dt[d].chunk # None
                  /\ DeferredAt(d).node # None => d \in DOMAIN fr /\ fr[d].st = "done")

\* A deferred node that depends on a fetch nobody performed has executed
\* its inner node and sent its chunk.
C33_Witness ==
    \E d \in DOMAIN dt \cap DOMAIN fr :
        /\ DeferredAt(d).depends = <<"f9">>
        /\ DependsUnmet(d)
        /\ fr[d].st = "done"
        /\ dt[d].chunk # None
        /\ dt[d].chunk[1].data = Obj(<<KV("u", Num(7)), KV("a", Num(1))>>)

(***************************************************************************)
(* C34.  The deferred_fetches of a Defer.                                  *)
(***************************************************************************)
\* The first deferred node and depends, in the order of the loops, that
\* names the fetch id.
FirstDepends(n, id) ==
    LET all == UNION {{<<j, k>> : k \in {i \in 1..Len(n.deferred[j].depends) :
                                              n.deferred[j].depends[i] = id}} :
                      j \in 1..Len(n.deferred)}
    IN  CHOOSE jk \in all :
            \A o \in all : jk[1] < o[1] \/ (jk[1] = o[1] /\ jk[2] <= o[2])

\* C34: the deferred_fetches of a Defer holds one sender for each fetch id
\* its deferred nodes depend on, that of the channel made for the first
\* depends that names the id; every receiver for the id belongs to that
\* channel; every deferred node has subscribed before the primary node's
\* call exists; and a value sent on the channel has been received by every
\* deferred node that has ended its wait for the id.
C34_OneChannelPerId ==
    \A pos \in DOMAIN primaryCh :
        LET n == Node(pos)
        IN  /\ DOMAIN DeferredFetches(n) = DeferredFetchIds(n)
            /\ \A id \in DeferredFetchIds(n) : <<pos, id>> \in DOMAIN fetchCh
            /\ \A j \in 1..Len(n.deferred) :
                  /\ Append(pos, j + 1) \in DOMAIN dt
                  /\ \A k \in 1..Len(n.deferred[j].depends) :
                        LET id == n.deferred[j].depends[k]
                            d == Append(pos, j + 1)
                        IN  /\ ReceiverChannel(n, j, k) = FirstDepends(n, id)
                            /\ DeferredFetches(n)[id] = FirstDepends(n, id)
                            /\ (k \notin dt[d].pending /\ fetchCh[<<pos, id>>].msgs # <<>>) =>
                                  /\ Len(fetchCh[<<pos, id>>].msgs) = 1
                                  /\ DeepMerge(dt[d].value, fetchCh[<<pos, id>>].msgs[1].value)
                                        = dt[d].value

\* Two deferred nodes of a Defer depend on the same fetch id and both have
\* received the value sent for it.
C34_Witness ==
    \E d1 \in DOMAIN dt : \E d2 \in DOMAIN dt :
        /\ Parent(d1) = Parent(d2)
        /\ Last(d1) < Last(d2)
        /\ DeferredAt(d1).depends # <<>> /\ DeferredAt(d1).depends[1] = "f1"
        /\ DeferredAt(d2).depends # <<>> /\ DeferredAt(d2).depends[1] = "f1"
        /\ fetchCh[<<Parent(d1), "f1">>].msgs # <<>>
        /\ dt[d1].st = "done" /\ dt[d2].st = "done"
        /\ dt[d1].value = One("a", 1)
        /\ dt[d2].value = One("a", 1)

(***************************************************************************)
(* C35.  Shutdown when the handle is dropped; no end without a Shutdown.   *)
(***************************************************************************)
\* C35: when the handle's shutdown sender is dropped or used, the unified
\* stream yields Shutdown and ends; and as long as the handle is held and
\* the shutdown future has not resolved (it never does with
\* ShutdownKind::None) the stream has not ended, whatever the sources have
\* yielded.
C35_ShutdownOnDrop ==
    /\ [][(signals.handle = "held" /\ signals'.handle # "held") =>
             /\ events' = Append(events, Shutdown)
             /\ merged' = "ended"]_vars
    /\ [](merged # "none" /\ signals.handle = "held" /\ signals.future = "pending"
             => merged = "open")
    /\ [](router # None /\ router[1].shutdown = "None" => signals.future = "pending")

\* With ShutdownKind::None both sources were exhausted while the handle was
\* held, then the handle was dropped and the stream ended with Shutdown.
C35_Witness ==
    /\ router[1].shutdown = "None"
    /\ signals.handle = "dropped"
    /\ merged = "ended"
    /\ Len(events) >= 3
    /\ events[Len(events)] = Shutdown
    /\ \A s \in Sources : Exhausted(s)

(***************************************************************************)
(* C36.  A condition value that is not the boolean true.                   *)
(***************************************************************************)
\* C36: when the condition variable has a value other than the boolean
\* true (false, null, a number, a string, the string "true" included), a
\* Condition never calls its if_clause, and calls its else_clause if it has
\* one.
C36_NonTrueSelectsElse ==
    \A pos \in DOMAIN fr :
        (Entered(pos, "Condition") /\ variables \notin {"absent", "true"}) =>
            /\ 1 \notin Called(pos)
            /\ 2 \in Called(pos) <=> Node(pos).elseClause # None

\* The variable is the number 1 and the Condition, which has both clauses,
\* has returned what its else_clause returned.
C36_Witness ==
    /\ plan = <<"condition", 3>>
    /\ variables = "1"
    /\ Root \in DOMAIN fr
    /\ fr[Root].st = "done"
    /\ Called(Root) = {2}
    /\ fr[Root].value = One("b", 2)

(***************************************************************************)
(* C37.  The state receiver is closed before the result is awaited.        *)
(***************************************************************************)
\* C37: once the handle has been awaited or shut down its state_receiver
\* field is empty; when the owner had not taken the receiver, the receiver
\* is closed and the state machine task is not suspended in a send on the
\* state channel; and a shutdown() of such a handle eventually returns,
\* after the task has ended.
C37_ShutdownCompletes ==
    /\ [](owner.call \in {"await", "shutdown"} =>
             /\ owner.state_receiver = "None"
             /\ ~owner.taken => (statech.receiver = "closed" /\ ~Blocked))
    /\ [](owner.result # None => task.joined # None)
    /\ (owner.call = "shutdown" /\ ~owner.taken) ~> (owner.result # None)

\* Nobody read the states: the task had sent Startup and Running, shutdown()
\* was called and has returned Ok after the task went through Stopped.
C37_Witness ==
    /\ owner.call = "shutdown"
    /\ ~owner.taken
    /\ owner.result = Some(Ok)
    /\ task.state = "Stopped"
    /\ task.published = 3
    /\ statech.queue = <<"Startup", "Running">>

(***************************************************************************)
(* C38.  The handle's result.                                              *)
(***************************************************************************)
\* C38: the handle's result is Err(StartupError) when the task panicked,
\* the error process_events returned when it returned one, and Ok only
\* when process_events returned Ok.
C38_HandleResult ==
    owner.result # None =>
        /\ task.joined # None
        /\ task.joined[1] = JoinError => owner.result[1] = Err("StartupError")
        /\ \A e \in ProcessErrors :
              task.joined[1] = JoinOk(Err(e)) => owner.result[1] = Err(e)
        /\ owner.result[1] = Ok <=> task.joined[1] = JoinOk(Ok)

\* The task panicked in Running and the handle, awaited, gave StartupError.
C38_Witness ==
    /\ task.state = "Running"
    /\ task.joined = Some(JoinError)
    /\ owner.call = "await"
    /\ owner.result = Some(Err("StartupError"))

(***************************************************************************)
(* C39.  The counters of QueryLatencyStats.                                *)
(***************************************************************************)
\* The inputs added so far for which the flag holds.
HitSet == {i \in 1..Len(latencies) : latencies[i].persisted_query_hit # None}
WithErrors == {i \in 1..Len(latencies) : latencies[i].has_errors}
RegisteredOperations == {i \in 1..Len(latencies) : latencies[i].registered_operation}
Forbidden == {i \in 1..Len(latencies) : latencies[i].forbidden_operation}
WithoutInstrumentation ==
    {i \in 1..Len(latencies) : latencies[i].without_field_instrumentation}

\* The inputs added to the default QueryLatencyStats in the order p.
RECURSIVE SumInOrder(_, _)
SumInOrder(p, n) ==
    IF n = 0 THEN QueryLatencyStatsDefault
    ELSE QueryLatencyStatsAddAssign(SumInOrder(p, n - 1), latencies[p[n]])

Counters == DOMAIN QueryLatencyStatsDefault

\* C39: after the inputs were added to a default QueryLatencyStats, hits
\* plus misses is the number of inputs whose persisted_query_hit is set,
\* each of the four other counters is the number of inputs whose flag is
\* true, and adding the inputs in any other order gives the same sums;
\* adding one input raises a counter by 0 or 1.
C39_Counters ==
    /\ [](/\ query_latency_stats.persisted_query_hits
                + query_latency_stats.persisted_query_misses = Cardinality(HitSet)
          /\ query_latency_stats.requests_with_errors_count = Cardinality(WithErrors)
          /\ query_latency_stats.registered_operation_count = Cardinality(RegisteredOperations)
          /\ query_latency_stats.forbidden_operation_count = Cardinality(Forbidden)
          /\ query_latency_stats.requests_without_field_instrumentation
                = Cardinality(WithoutInstrumentation)
          /\ \A p \in Permutations(1..Len(latencies)) :
                SumInOrder(p, Len(latencies)) = query_latency_stats)
    /\ [][\A c \in Counters :
             query_latency_stats'[c] - query_latency_stats[c] \in {0, 1}]_vars

\* Two inputs were added: a miss with errors, and one with no
\* persisted_query_hit for a forbidden operation.
C39_Witness ==
    /\ Len(latencies) = 2
    /\ latencies[1].persisted_query_hit = Some(FALSE)
    /\ latencies[1].has_errors
    /\ latencies[2].persisted_query_hit = None
    /\ latencies[2].forbidden_operation
    /\ ~latencies[2].has_errors
    /\ query_latency_stats.persisted_query_misses = 1
    /\ query_latency_stats.persisted_query_hits = 0
    /\ query_latency_stats.requests_with_errors_count = 1

(***************************************************************************)
(* C40.  ErrorsForward::merge.                                             *)
(***************************************************************************)
\* The list an Option<Vec<_>> stands for: none counts as the empty list.
ListOf(extensions) == IF extensions = None THEN <<>> ELSE extensions[1]

\* C40: after a.merge(b), a.extensions is a's list followed by b's, an
\* absent list counting as empty, and is absent when both were; and
\* a.include_messages is b's.
C40_Merge ==
    forwards.merged # None =>
        LET a == forwards.self
            b == forwards.to_merge
            m == forwards.merged[1]
        IN  /\ IF a.extensions = None /\ b.extensions = None
               THEN m.extensions = None
               ELSE m.extensions = Some(ListOf(a.extensions) \o ListOf(b.extensions))
            /\ m.include_messages = b.include_messages

\* A forward that includes messages and lists x was merged with one that
\* does not and lists y: it lists x then y and includes no messages.
C40_Witness ==
    /\ forwards.self = ErrorsForward(TRUE, Some(<<"x">>))
    /\ forwards.to_merge = ErrorsForward(FALSE, Some(<<"y">>))
    /\ forwards.merged = Some(ErrorsForward(FALSE, Some(<<"x", "y">>)))

====
